---- MODULE Spec2Model ----
(***************************************************************************)
(* Model of azptu (src/azptu.py): the PTU capacity validator, the          *)
(* DeploymentManager lifecycle operations (create, update, delete,         *)
(* get-info) and the CLI commands that drive them.                         *)
(*                                                                         *)
(* Python strings that the code transforms (lower(), replace()) are        *)
(* sequences of one-character strings; None / missing values are the       *)
(* empty sequence, the empty string or a record with present = FALSE.      *)
(***************************************************************************)
EXTENDS Integers, Sequences, FiniteSets, TLC

\* ------------------------------------------------------------------------
\* Bounds
\* ------------------------------------------------------------------------
MaxCapacity == 3

Capacities == 0..MaxCapacity

\* ------------------------------------------------------------------------
\* Python string helpers
\* ------------------------------------------------------------------------
UpperToLower ==
    ("A" :> "a") @@ ("B" :> "b") @@ ("D" :> "d") @@ ("E" :> "e") @@
    ("G" :> "g") @@ ("I" :> "i") @@ ("L" :> "l") @@ ("M" :> "m") @@
    ("N" :> "n") @@ ("O" :> "o") @@ ("R" :> "r") @@ ("T" :> "t") @@
    ("Z" :> "z")

LowerChar(c) == IF c \in DOMAIN UpperToLower THEN UpperToLower[c] ELSE c

\* str.lower()
lower(s) == [i \in DOMAIN s |-> LowerChar(s[i])]

\* str.replace(old, new) for one-character old and new
replace(s, old, new) == [i \in DOMAIN s |-> IF s[i] = old THEN new ELSE s[i]]

\* ------------------------------------------------------------------------
\* Configuration: the ptu_requirements table of config.json
\* ------------------------------------------------------------------------
\* regional_min = None is the record field regional_none = TRUE.
KeyA == <<"m", "-", "a">>
KeyB == <<"m", "_", "b">>

ptu_requirements ==
    (KeyA :> [regional_none |-> FALSE, regional_min |-> 2, regional_increment |-> 2,
              global_min |-> 1, global_increment |-> 2]) @@
    (KeyB :> [regional_none |-> TRUE, regional_min |-> 0, regional_increment |-> 2,
              global_min |-> 2, global_increment |-> 1])

\* ------------------------------------------------------------------------
\* validate_ptu_capacity
\* ------------------------------------------------------------------------
\* The five alternative spellings tried, in order, when the exact name
\* is not a key of the table.
alt_keys(model_name) ==
    << lower(model_name),
       replace(model_name, "_", "-"),
       replace(model_name, "-", "_"),
       replace(lower(model_name), "_", "-"),
       replace(lower(model_name), "-", "_") >>

\* Index of the first alternative that is a key, 0 when there is none.
found_index(model_name) ==
    LET alts == alt_keys(model_name)
        hits == {i \in DOMAIN alts : alts[i] \in DOMAIN ptu_requirements}
    IN  IF hits = {} THEN 0
        ELSE CHOOSE i \in hits : \A j \in hits : i <= j

model_key_fallback(model_name) ==
    IF model_name \in DOMAIN ptu_requirements THEN model_name
    ELSE IF found_index(model_name) = 0 THEN KeyA
    ELSE alt_keys(model_name)[found_index(model_name)]

\* The table key the name resolves to; <<>> when the model is unknown.
model_key(model_name) ==
    IF model_name \in DOMAIN ptu_requirements THEN model_name
    ELSE IF found_index(model_name) = 0 THEN <<>>
    ELSE alt_keys(model_name)[found_index(model_name)]

Str_global == <<"g", "l", "o", "b", "a", "l">>
Str_data_zone == <<"d", "a", "t", "a", "-", "z", "o", "n", "e">>
Str_datazone == <<"d", "a", "t", "a", "z", "o", "n", "e">>
Str_regional == <<"r", "e", "g", "i", "o", "n", "a", "l">>

is_global_type_caseSensitive(deployment_type) ==
    deployment_type \in {Str_global, Str_data_zone, Str_datazone}

\* deployment_type.lower() in ['global', 'data-zone', 'datazone']
is_global_type(deployment_type) ==
    lower(deployment_type) \in {Str_global, Str_data_zone, Str_datazone}

ValidResult == [tag |-> "return", ok |-> TRUE, kind |-> "", type_name |-> "",
                model_name |-> <<>>, limit |-> 0, capacity |-> 0]

Invalid(kind, model_name, type_name, limit, capacity) ==
    [tag |-> "return", ok |-> FALSE, kind |-> kind, type_name |-> type_name,
     model_name |-> model_name, limit |-> limit, capacity |-> capacity]

Raises(exc_type) ==
    [tag |-> "raise", ok |-> FALSE, kind |-> exc_type, type_name |-> "",
     model_name |-> <<>>, limit |-> 0, capacity |-> 0]

validate_ptu_capacity_noIncrement(model_name, capacity, deployment_type) ==
    LET key == model_key(model_name) IN
    IF key = <<>> THEN ValidResult
    ELSE
      LET requirements == ptu_requirements[key]
          glob == is_global_type(deployment_type)
          min_none == IF glob THEN FALSE ELSE requirements.regional_none
          min_capacity == IF glob THEN requirements.global_min
                          ELSE requirements.regional_min
          type_name == IF glob THEN "Global/Data Zone" ELSE "Regional"
      IN  IF min_none
            THEN Invalid("UnsupportedTier", model_name, "", 0, 0)
          ELSE IF capacity < min_capacity
            THEN Invalid("MinCapacity", model_name, type_name, min_capacity, capacity)
          ELSE ValidResult

validate_ptu_capacity_minFirst(model_name, capacity, deployment_type) ==
    LET key == model_key(model_name) IN
    IF key = <<>> THEN ValidResult
    ELSE
      LET requirements == ptu_requirements[key]
          glob == is_global_type(deployment_type)
          min_none == IF glob THEN FALSE ELSE requirements.regional_none
          min_capacity == IF glob THEN requirements.global_min
                          ELSE requirements.regional_min
          increment == IF glob THEN requirements.global_increment
                       ELSE requirements.regional_increment
          type_name == IF glob THEN "Global/Data Zone" ELSE "Regional"
      IN  IF capacity < min_capacity
            THEN Invalid("MinCapacity", model_name, type_name, min_capacity, capacity)
          ELSE IF min_none
            THEN Invalid("UnsupportedTier", model_name, "", 0, 0)
          ELSE IF (capacity - min_capacity) % increment # 0
            THEN Invalid("IncrementMismatch", model_name, type_name, increment, capacity)
          ELSE ValidResult

validate_ptu_capacity_exactOnly(model_name, capacity, deployment_type) ==
    IF model_name \in DOMAIN ptu_requirements
    THEN LET requirements == ptu_requirements[model_name]
             glob == is_global_type(deployment_type)
             min_none == IF glob THEN FALSE ELSE requirements.regional_none
             min_capacity == IF glob THEN requirements.global_min
                             ELSE requirements.regional_min
             increment == IF glob THEN requirements.global_increment
                          ELSE requirements.regional_increment
             type_name == IF glob THEN "Global/Data Zone" ELSE "Regional"
         IN  IF min_none
               THEN Invalid("UnsupportedTier", model_name, "", 0, 0)
             ELSE IF capacity < min_capacity
               THEN Invalid("MinCapacity", model_name, type_name, min_capacity, capacity)
             ELSE IF (capacity - min_capacity) % increment # 0
               THEN Invalid("IncrementMismatch", model_name, type_name, increment, capacity)
             ELSE ValidResult
    ELSE ValidResult

validate_ptu_capacity(model_name, capacity, deployment_type) ==
    LET key == model_key(model_name) IN
    IF key = <<>> THEN ValidResult
    ELSE
      LET requirements == ptu_requirements[key]
          glob == is_global_type(deployment_type)
          min_none == IF glob THEN FALSE ELSE requirements.regional_none
          min_capacity == IF glob THEN requirements.global_min
                          ELSE requirements.regional_min
          increment == IF glob THEN requirements.global_increment
                       ELSE requirements.regional_increment
          type_name == IF glob THEN "Global/Data Zone" ELSE "Regional"
      IN  IF min_none
            THEN Invalid("UnsupportedTier", model_name, "", 0, 0)
          ELSE IF capacity < min_capacity
            THEN Invalid("MinCapacity", model_name, type_name, min_capacity, capacity)
          ELSE IF increment = 0
            THEN Raises("ZeroDivisionError")
          ELSE IF (capacity - min_capacity) % increment # 0
            THEN Invalid("IncrementMismatch", model_name, type_name, increment, capacity)
          ELSE ValidResult

\* ------------------------------------------------------------------------
\* Values exchanged with the remote management boundary
\* ------------------------------------------------------------------------
Subscriptions == {"sub1", "sub2"}

Str_Unknown == <<"U", "n", "k", "n", "o", "w", "n">>
Str_Global == <<"G", "l", "o", "b", "a", "l">>
NameZ == <<"z">>
NameAUpper == <<"M", "_", "A">>

\* A deployment as the SDK shows it (Deployment / Sku / DeploymentModel).
\* properties.model = None is has_model = FALSE; a None name, version or
\* format is the empty value.
Deployment(sku_name, capacity, format, name, version) ==
    [exists |-> TRUE, has_model |-> TRUE, model_name |-> name,
     model_version |-> version, model_format |-> format,
     sku_name |-> sku_name, capacity |-> capacity]

NoDeployment ==
    [exists |-> FALSE, has_model |-> FALSE, model_name |-> <<>>,
     model_version |-> "", model_format |-> "",
     sku_name |-> "", capacity |-> 0]

ModelessDeployment ==
    [exists |-> TRUE, has_model |-> FALSE, model_name |-> <<>>,
     model_version |-> "", model_format |-> "",
     sku_name |-> "ProvisionedManaged", capacity |-> 2]

\* Deployments the remote platform may hold before the program runs.
InitialRemotes ==
    { NoDeployment,
      ModelessDeployment,
      Deployment("GlobalProvisionedManaged", 1, "OpenAI", KeyA, "v1"),
      Deployment("ProvisionedManaged", 2, "Custom", KeyA, "v1"),
      Deployment("ProvisionedManaged", 2, "OpenAI", KeyA, "") }

\* Inputs of the operations.
ModelNames == {KeyA, NameAUpper, KeyB, NameZ}
TierStrings == {Str_regional, Str_Global, Str_data_zone, Str_datazone}
ModelVersion == "v1"

\* Exceptions: azure.core.exceptions.HttpResponseError carries status_code;
\* ClientAuthenticationError is a subclass of HttpResponseError.
NoExc == [type |-> "None", status |-> "None"]
ValueError == [type |-> "ValueError", status |-> "None"]
AuthError == [type |-> "ClientAuthenticationError", status |-> "None"]
TransportFailure == [type |-> "ServiceRequestError", status |-> "None"]
HttpError(status) == [type |-> "HttpResponseError", status |-> status]
Statuses == {"403", "404", "429", "500"}

IsHttpResponseError(e) ==
    e.type \in {"HttpResponseError", "ClientAuthenticationError"}

\* Ways a request to the remote boundary can fail.  A credential whose
\* token test failed can make any later request fail to authenticate.
RemoteFailures(cred) ==
    {HttpError(s) : s \in Statuses} \cup {TransportFailure}
      \cup (IF cred = "Untested" THEN {AuthError} ELSE {})

NoneValue == [tag |-> "None", d |-> NoDeployment]
DeploymentValue(d) == [tag |-> "deployment", d |-> d]

\* The dictionary get_deployment_info builds from the fetched deployment.
deployment_info(deployment) ==
    [tag |-> "info",
     d |-> [exists |-> TRUE,
            has_model |-> deployment.has_model,
            model_name |-> IF deployment.has_model THEN deployment.model_name
                           ELSE Str_Unknown,
            model_version |-> IF deployment.has_model THEN deployment.model_version
                              ELSE "Unknown",
            model_format |-> IF deployment.has_model THEN deployment.model_format
                             ELSE "Unknown",
            sku_name |-> deployment.sku_name,
            capacity |-> deployment.capacity]]

Request(kind, sub, body) == [kind |-> kind, sub |-> sub, body |-> body]

\* ------------------------------------------------------------------------
\* DeploymentManager helpers
\* ------------------------------------------------------------------------
sku_name_map ==
    (Str_regional :> "ProvisionedManaged") @@
    (Str_global :> "GlobalProvisionedManaged") @@
    (Str_data_zone :> "DataZoneProvisionedManaged")

\* sku_name_map.get(deployment_type.lower(), 'ProvisionedManaged')
sku_name(deployment_type) ==
    IF lower(deployment_type) \in DOMAIN sku_name_map
      THEN sku_name_map[lower(deployment_type)]
      ELSE "ProvisionedManaged"

\* The Deployment that create_ptu_deployment submits.
deployment_config(deployment_type, capacity, model_name, model_version) ==
    Deployment(sku_name(deployment_type), capacity, "OpenAI", model_name, model_version)

\* Variant: the model format is written as in create, not carried over.
updated_deployment_fixedFormat(current, deployment_type, new_capacity) ==
    Deployment(sku_name(deployment_type), new_capacity, "OpenAI",
               current.model_name, current.model_version)

\* The Deployment that update_ptu_capacity submits.
updated_deployment(current_deployment, deployment_type, new_capacity) ==
    Deployment(sku_name(deployment_type), new_capacity,
               IF current_deployment.has_model THEN current_deployment.model_format
               ELSE "OpenAI",
               current_deployment.model_name, current_deployment.model_version)

\* "not model_name or not model_version" of update_ptu_capacity
no_model_identity(current_deployment) ==
    \/ ~current_deployment.has_model
    \/ current_deployment.model_name = <<>>
    \/ current_deployment.model_version = ""

\* The except clauses of the four operations: the message echoed for an
\* exception ("" when nothing is echoed) and whether the exception is
\* swallowed (the operation returns None) or re-raised.
Handled(msg, swallow) == [msg |-> msg, swallow |-> swallow]

\* Variant: create reports a 404 as not found, as update and delete do.
create_except_notFound(e) ==
    IF e.type = "ValueError" THEN Handled("ValidationError", FALSE)
    ELSE IF IsHttpResponseError(e) THEN
        IF e.status = "404" THEN Handled("NotFound", FALSE)
        ELSE IF e.status = "429" THEN Handled("CapacityUnavailable", FALSE)
        ELSE IF e.status = "403" THEN Handled("QuotaInsufficient", FALSE)
        ELSE Handled("RemoteError", FALSE)
    ELSE Handled("TransportError", FALSE)

create_except(e) ==
    IF e.type = "ValueError" THEN Handled("ValidationError", FALSE)
    ELSE IF IsHttpResponseError(e) THEN
        IF e.status = "429" THEN Handled("CapacityUnavailable", FALSE)
        ELSE IF e.status = "403" THEN Handled("QuotaInsufficient", FALSE)
        ELSE Handled("RemoteError", FALSE)
    ELSE Handled("TransportError", FALSE)

update_except(e) ==
    IF e.type = "ValueError" THEN Handled("ValidationError", FALSE)
    ELSE IF IsHttpResponseError(e) THEN
        IF e.status = "404" THEN Handled("NotFound", FALSE)
        ELSE IF e.status = "429" THEN Handled("CapacityUnavailable", FALSE)
        ELSE IF e.status = "403" THEN Handled("QuotaInsufficient", FALSE)
        ELSE Handled("RemoteError", FALSE)
    ELSE Handled("TransportError", FALSE)

delete_except(e) ==
    IF IsHttpResponseError(e) THEN
        IF e.status = "404" THEN Handled("NotFound", FALSE)
        ELSE Handled("RemoteError", FALSE)
    ELSE Handled("TransportError", FALSE)

\* Variant: every HTTP failure of the fetch is turned into None.
get_info_except_swallowAll(e) ==
    IF IsHttpResponseError(e) THEN Handled("NotFound", TRUE)
    ELSE Handled("TransportError", FALSE)

get_info_except(e) ==
    IF IsHttpResponseError(e) THEN
        IF e.status = "404" THEN Handled("NotFound", TRUE)
        ELSE Handled("", FALSE)
    ELSE Handled("TransportError", FALSE)

Except(name, e) ==
    CASE name = "create" -> create_except(e)
      [] name = "update" -> update_except(e)
      [] name = "delete" -> delete_except(e)
      [] OTHER -> get_info_except(e)

\* ------------------------------------------------------------------------
\* State
\* ------------------------------------------------------------------------
VARIABLES
    credential,          \* DeploymentManager.credential: "None", "Untested"
                         \* (set, token test failed) or "Tested"
    client,              \* DeploymentManager.client: "None" or the
                         \* subscription id it was built with
    remote,              \* the deployment held by the remote platform
    pc,                  \* position of the running operation
    op,                  \* name and arguments of the running operation
    current_deployment,  \* the deployment fetched by update_ptu_capacity
    pending,             \* body of the long-running operation in flight
    reqs,                \* requests sent by the running operation
    msgs,                \* error messages echoed by the running operation
    outcome,             \* how the operation ended
    failures,            \* remote calls that failed in this command or call
    cmd,                 \* the CLI command in progress
    exit_code            \* exit status of the CLI command

\* State of the validator when it is exercised alone, and of the session
\* store (StateManager and its file).
VARIABLES
    v_in,                \* arguments of validate_ptu_capacity
    v_out,               \* what validate_ptu_capacity returned
    file,                \* the session file .cli_state
    now,                 \* time.time()
    mem,                 \* StateManager.state of the running process
    s_pc,                \* "none": no StateManager; "ready": constructed
    s_last               \* the last StateManager method that ran

\* A second process that shares the session file, and the options of a
\* lifecycle command.
VARIABLES
    mem_b,               \* StateManager.state of the second process
    s_pc_b,              \* "none" or "ready", for the second process
    s_who,               \* the process whose StateManager method ran last
    given,               \* --resource-group and --subscription-id as typed
    resolved             \* resource_group and subscription_id after the lookup

validator_vars == <<v_in, v_out>>
store_vars == <<file, now, mem, s_pc, s_last>>
race_vars == <<mem_b, s_pc_b, s_who>>
command_vars == <<given, resolved>>
aux_vars == <<validator_vars, store_vars, race_vars, command_vars>>
manager_vars == <<credential, client, remote, pc, op, current_deployment, pending,
                  reqs, msgs, outcome, failures, cmd, exit_code>>

vars == <<credential, client, remote, pc, op, current_deployment, pending,
          reqs, msgs, outcome, failures, cmd, exit_code, aux_vars>>

NoOutcome == [kind |-> "none", exc |-> NoExc, value |-> NoneValue]
Returned(value) == [kind |-> "return", exc |-> NoExc, value |-> value]
Raised(e) == [kind |-> "raise", exc |-> e, value |-> NoneValue]

NoOp == [name |-> "none", subscription_id |-> "None", model_name |-> <<>>,
         model_version |-> "", capacity |-> 0, deployment_type |-> <<>>]

NoCmd == [name |-> "none", stage |-> "none", force |-> FALSE]

\* The validator has not been called.
NoInput == [model_name |-> <<>>, capacity |-> 0, deployment_type |-> <<>>]
NoResult == [tag |-> "none", ok |-> FALSE, kind |-> "", type_name |-> "",
             model_name |-> <<>>, limit |-> 0, capacity |-> 0]

ValidatorIdle ==
    /\ v_in = NoInput
    /\ v_out = NoResult

\* No session file, no StateManager.
EmptyState == [k \in {} |-> ""]
NoFile == [kind |-> "absent", has_timestamp |-> FALSE, timestamp |-> 0,
           state |-> EmptyState]
NoMethod == [method |-> "none", key |-> "", branch |-> "", at |-> 0, age |-> 0,
             prev |-> "none"]

StoreIdle ==
    /\ file = NoFile
    /\ now = 0
    /\ mem = EmptyState
    /\ s_pc = "none"
    /\ s_last = NoMethod

\* No second process.
RaceIdle ==
    /\ mem_b = EmptyState
    /\ s_pc_b = "none"
    /\ s_who = "A"

\* No lifecycle command has looked up its options.
NoOptions == [resource_group |-> "None", subscription_id |-> "None"]

CommandIdle ==
    /\ given = NoOptions
    /\ resolved = NoOptions

\* No DeploymentManager operation and no command is running.
ManagerIdle ==
    /\ credential = "None"
    /\ client = "None"
    /\ remote = NoDeployment
    /\ pc = "idle"
    /\ op = NoOp
    /\ current_deployment = NoDeployment
    /\ pending = NoDeployment
    /\ reqs = <<>>
    /\ msgs = <<>>
    /\ outcome = NoOutcome
    /\ failures = <<>>
    /\ cmd = NoCmd
    /\ exit_code = "none"

Init ==
    /\ ValidatorIdle
    /\ StoreIdle
    /\ RaceIdle
    /\ CommandIdle
    /\ credential = "None"
    /\ client = "None"
    /\ remote \in InitialRemotes
    /\ pc = "idle"
    /\ op = NoOp
    /\ current_deployment = NoDeployment
    /\ pending = NoDeployment
    /\ reqs = <<>>
    /\ msgs = <<>>
    /\ outcome = NoOutcome
    /\ failures = <<>>
    /\ cmd = NoCmd
    /\ exit_code = "none"

\* ------------------------------------------------------------------------
\* Entering an operation of the DeploymentManager
\* ------------------------------------------------------------------------
FirstPc(name) ==
    CASE name = "create" -> "c_validate"
      [] name = "update" -> "u_client"
      [] name = "delete" -> "d_client"
      [] OTHER -> "g_client"

CreateArgs ==
    { [name |-> "create", subscription_id |-> s, model_name |-> m,
       model_version |-> ModelVersion, capacity |-> c, deployment_type |-> t] :
      s \in Subscriptions, m \in ModelNames, c \in Capacities, t \in TierStrings }

UpdateArgs ==
    { [name |-> "update", subscription_id |-> s, model_name |-> <<>>,
       model_version |-> "", capacity |-> c, deployment_type |-> t] :
      s \in Subscriptions, c \in Capacities, t \in TierStrings }

DeleteArgs ==
    { [name |-> "delete", subscription_id |-> s, model_name |-> <<>>,
       model_version |-> "", capacity |-> 0, deployment_type |-> <<>>] :
      s \in Subscriptions }

GetInfoArgs ==
    { [name |-> "get_info", subscription_id |-> s, model_name |-> <<>>,
       model_version |-> "", capacity |-> 0, deployment_type |-> <<>>] :
      s \in Subscriptions }

\* The operation starts: its try block is entered.
Enter(args) ==
    /\ op' = args
    /\ pc' = FirstPc(args.name)
    /\ current_deployment' = NoDeployment
    /\ pending' = NoDeployment
    /\ reqs' = <<>>
    /\ msgs' = <<>>
    /\ outcome' = NoOutcome

\* A caller that holds a DeploymentManager calls one of its operations.
Call(args) ==
    /\ cmd = NoCmd
    /\ pc = "idle"
    /\ Enter(args)
    /\ failures' = <<>>
    /\ UNCHANGED <<credential, client, remote, cmd, exit_code>>
    /\ UNCHANGED aux_vars

\* The exception e leaves the try block of the running operation: the
\* matching except clause echoes its message and re-raises, or returns None.
Leave(base_msgs, e) ==
    LET h == Except(op.name, e) IN
    /\ msgs' = IF h.msg = "" THEN base_msgs ELSE Append(base_msgs, h.msg)
    /\ outcome' = IF h.swallow THEN Returned(NoneValue) ELSE Raised(e)
    /\ pc' = "done"

\* A remote call of the running operation failed with e.
Failure(kind, e) == [op |-> op.name, kind |-> kind, exc |-> e]

\* The operation has returned or raised to a caller that holds the manager:
\* its frame is gone, the manager and the remote platform stay as they are.
CallOver ==
    /\ cmd = NoCmd
    /\ pc = "done"
    /\ pc' = "idle"
    /\ op' = NoOp
    /\ current_deployment' = NoDeployment
    /\ pending' = NoDeployment
    /\ reqs' = <<>>
    /\ msgs' = <<>>
    /\ outcome' = NoOutcome
    /\ failures' = <<>>
    /\ UNCHANGED <<credential, client, remote, cmd, exit_code>>
    /\ UNCHANGED aux_vars

\* ------------------------------------------------------------------------
\* get_management_client / get_credential
\* ------------------------------------------------------------------------
AfterClient(p) ==
    CASE p = "c_client" -> "c_submit"
      [] p = "u_client" -> "u_get"
      [] p = "d_client" -> "d_confirm"
      [] OTHER -> "g_get"

\* The client exists already: it is reused whatever subscription is asked.
ClientCached ==
    /\ pc \in {"c_client", "u_client", "d_client", "g_client"}
    /\ client # "None"
    /\ pc' = AfterClient(pc)
    /\ UNCHANGED <<credential, client, remote, op, current_deployment, pending,
                   reqs, msgs, outcome, failures, cmd, exit_code>>
    /\ UNCHANGED aux_vars

\* No client and a credential object is already stored: it is returned
\* without a token test.
ClientFromStoredCredential ==
    /\ pc \in {"c_client", "u_client", "d_client", "g_client"}
    /\ client = "None"
    /\ credential # "None"
    /\ client' = op.subscription_id
    /\ pc' = AfterClient(pc)
    /\ UNCHANGED <<credential, remote, op, current_deployment, pending,
                   reqs, msgs, outcome, failures, cmd, exit_code>>
    /\ UNCHANGED aux_vars

\* No client and no credential: the credential is stored, then tested with
\* get_token; the test passes and the client is built.
CredentialTested ==
    /\ pc \in {"c_client", "u_client", "d_client", "g_client"}
    /\ client = "None"
    /\ credential = "None"
    /\ credential' = "Tested"
    /\ client' = op.subscription_id
    /\ reqs' = Append(reqs, Request("get_token", "None", NoDeployment))
    /\ pc' = AfterClient(pc)
    /\ UNCHANGED <<remote, op, current_deployment, pending, msgs, outcome,
                   failures, cmd, exit_code>>
    /\ UNCHANGED aux_vars

\* The token test fails: the authentication message is echoed and the
\* ClientAuthenticationError is re-raised into the operation.
CredentialFailed ==
    /\ pc \in {"c_client", "u_client", "d_client", "g_client"}
    /\ client = "None"
    /\ credential = "None"
    /\ credential' = "Untested"
    /\ reqs' = Append(reqs, Request("get_token", "None", NoDeployment))
    /\ failures' = Append(failures, Failure("get_token", AuthError))
    /\ Leave(Append(msgs, "AuthenticationRequired"), AuthError)
    /\ UNCHANGED <<client, remote, op, current_deployment, pending, cmd, exit_code>>
    /\ UNCHANGED aux_vars

\* ------------------------------------------------------------------------
\* create_ptu_deployment
\* ------------------------------------------------------------------------
\* Variant: the result of the validation is not looked at.
CreateValidate_unchecked ==
    /\ pc = "c_validate"
    /\ pc' = "c_client"
    /\ UNCHANGED <<credential, client, remote, op, current_deployment, pending,
                   reqs, msgs, outcome, failures, cmd, exit_code>>
    /\ UNCHANGED aux_vars

\* Variant: the credential is tested before the capacity is validated.
CreateValidate_tokenFirst ==
    /\ pc = "c_validate"
    /\ reqs' = Append(reqs, Request("get_token", "None", NoDeployment))
    /\ LET v == validate_ptu_capacity(op.model_name, op.capacity, op.deployment_type) IN
       IF v.tag = "raise"
         THEN /\ Leave(msgs, [type |-> v.kind, status |-> "None"])
       ELSE IF ~v.ok
         THEN /\ Leave(msgs, ValueError)
       ELSE /\ pc' = "c_client"
            /\ UNCHANGED <<msgs, outcome>>
    /\ UNCHANGED <<credential, client, remote, op, current_deployment, pending,
                   failures, cmd, exit_code>>
    /\ UNCHANGED aux_vars

\* Validation and the SKU mapping, before any client is asked for.
CreateValidate ==
    /\ pc = "c_validate"
    /\ LET v == validate_ptu_capacity(op.model_name, op.capacity, op.deployment_type) IN
       IF v.tag = "raise"
         THEN /\ Leave(msgs, [type |-> v.kind, status |-> "None"])
       ELSE IF ~v.ok
         THEN /\ Leave(msgs, ValueError)
       ELSE /\ pc' = "c_client"
            /\ UNCHANGED <<msgs, outcome>>
    /\ UNCHANGED <<credential, client, remote, op, current_deployment, pending,
                   reqs, failures, cmd, exit_code>>
    /\ UNCHANGED aux_vars

\* begin_create_or_update is sent and answers with a poller.
CreateSubmit ==
    /\ pc = "c_submit"
    /\ pending' = deployment_config(op.deployment_type, op.capacity,
                                    op.model_name, op.model_version)
    /\ reqs' = Append(reqs, Request("create_or_update", client, pending'))
    /\ pc' = "c_poll"
    /\ UNCHANGED <<credential, client, remote, op, current_deployment, msgs,
                   outcome, failures, cmd, exit_code>>
    /\ UNCHANGED aux_vars

\* begin_create_or_update is sent and fails at once.
CreateSubmitFails(e) ==
    /\ pc = "c_submit"
    /\ reqs' = Append(reqs, Request("create_or_update", client,
                  deployment_config(op.deployment_type, op.capacity,
                                    op.model_name, op.model_version)))
    /\ failures' = Append(failures, Failure("create_or_update", e))
    /\ Leave(msgs, e)
    /\ UNCHANGED <<credential, client, remote, op, current_deployment, pending,
                   cmd, exit_code>>
    /\ UNCHANGED aux_vars

\* operation.result(): the long-running operation succeeded.
CreatePollSucceeds_cached ==
    /\ pc = "c_poll"
    /\ remote' = pending
    /\ outcome' = Returned(DeploymentValue(pending))
    /\ pc' = "done"
    /\ mem' = [k \in DOMAIN mem \cup {"deployment"} |->
                  IF k = "deployment" THEN DeploymentValue(pending) ELSE mem[k]]
    /\ file' = [kind |-> "json", has_timestamp |-> TRUE, timestamp |-> now,
                state |-> mem']
    /\ UNCHANGED <<credential, client, op, current_deployment, pending, reqs,
                   msgs, failures, cmd, exit_code>>
    /\ UNCHANGED <<validator_vars, race_vars, command_vars, now, s_pc, s_last>>

CreatePollSucceeds ==
    /\ pc = "c_poll"
    /\ remote' = pending
    /\ outcome' = Returned(DeploymentValue(pending))
    /\ pc' = "done"
    /\ UNCHANGED <<credential, client, op, current_deployment, pending, reqs,
                   msgs, failures, cmd, exit_code>>
    /\ UNCHANGED aux_vars

\* Variant: a failed long-running operation is submitted again.
CreatePollFails_retry(e) ==
    /\ pc = "c_poll"
    /\ failures' = Append(failures, Failure("create_or_update", e))
    /\ reqs' = Append(reqs, Request("create_or_update", client, pending))
    /\ UNCHANGED <<credential, client, remote, pc, op, current_deployment, pending,
                   msgs, outcome, cmd, exit_code>>
    /\ UNCHANGED aux_vars

\* operation.result(): the long-running operation failed.
CreatePollFails(e) ==
    /\ pc = "c_poll"
    /\ failures' = Append(failures, Failure("create_or_update", e))
    /\ Leave(msgs, e)
    /\ UNCHANGED <<credential, client, remote, op, current_deployment, pending,
                   reqs, cmd, exit_code>>
    /\ UNCHANGED aux_vars

\* ------------------------------------------------------------------------
\* update_ptu_capacity
\* ------------------------------------------------------------------------
\* client.deployments.get answers with the current deployment.
UpdateGet ==
    /\ pc = "u_get"
    /\ remote.exists
    /\ reqs' = Append(reqs, Request("get", client, NoDeployment))
    /\ current_deployment' = remote
    /\ pc' = "u_validate"
    /\ UNCHANGED <<credential, client, remote, op, pending, msgs, outcome,
                   failures, cmd, exit_code>>
    /\ UNCHANGED aux_vars

UpdateGetFails(e) ==
    /\ pc = "u_get"
    /\ reqs' = Append(reqs, Request("get", client, NoDeployment))
    /\ failures' = Append(failures, Failure("get", e))
    /\ Leave(msgs, e)
    /\ UNCHANGED <<credential, client, remote, op, current_deployment, pending,
                   cmd, exit_code>>
    /\ UNCHANGED aux_vars

\* Variant: the request is sent before the checks are made.
UpdateValidate_submitFirst ==
    /\ pc = "u_validate"
    /\ reqs' = Append(reqs, Request("create_or_update", client,
                  updated_deployment(current_deployment, op.deployment_type, op.capacity)))
    /\ IF no_model_identity(current_deployment)
         THEN Leave(msgs, ValueError)
       ELSE LET v == validate_ptu_capacity(current_deployment.model_name,
                                           op.capacity, op.deployment_type) IN
            IF v.tag = "raise"
              THEN Leave(msgs, [type |-> v.kind, status |-> "None"])
            ELSE IF ~v.ok
              THEN Leave(msgs, ValueError)
            ELSE /\ pc' = "u_poll"
                 /\ UNCHANGED <<msgs, outcome>>
    /\ UNCHANGED <<credential, client, remote, op, current_deployment, pending,
                   failures, cmd, exit_code>>
    /\ UNCHANGED aux_vars

\* Model identity check, validation of the new capacity, SKU mapping.
UpdateValidate ==
    /\ pc = "u_validate"
    /\ IF no_model_identity(current_deployment)
         THEN Leave(msgs, ValueError)
       ELSE LET v == validate_ptu_capacity(current_deployment.model_name,
                                           op.capacity, op.deployment_type) IN
            IF v.tag = "raise"
              THEN Leave(msgs, [type |-> v.kind, status |-> "None"])
            ELSE IF ~v.ok
              THEN Leave(msgs, ValueError)
            ELSE /\ pc' = "u_submit"
                 /\ UNCHANGED <<msgs, outcome>>
    /\ UNCHANGED <<credential, client, remote, op, current_deployment, pending,
                   reqs, failures, cmd, exit_code>>
    /\ UNCHANGED aux_vars

UpdateSubmit ==
    /\ pc = "u_submit"
    /\ pending' = updated_deployment(current_deployment, op.deployment_type, op.capacity)
    /\ reqs' = Append(reqs, Request("create_or_update", client, pending'))
    /\ pc' = "u_poll"
    /\ UNCHANGED <<credential, client, remote, op, current_deployment, msgs,
                   outcome, failures, cmd, exit_code>>
    /\ UNCHANGED aux_vars

UpdateSubmitFails(e) ==
    /\ pc = "u_submit"
    /\ reqs' = Append(reqs, Request("create_or_update", client,
                  updated_deployment(current_deployment, op.deployment_type, op.capacity)))
    /\ failures' = Append(failures, Failure("create_or_update", e))
    /\ Leave(msgs, e)
    /\ UNCHANGED <<credential, client, remote, op, current_deployment, pending,
                   cmd, exit_code>>
    /\ UNCHANGED aux_vars

UpdatePollSucceeds ==
    /\ pc = "u_poll"
    /\ remote' = pending
    /\ outcome' = Returned(DeploymentValue(pending))
    /\ pc' = "done"
    /\ UNCHANGED <<credential, client, op, current_deployment, pending, reqs,
                   msgs, failures, cmd, exit_code>>
    /\ UNCHANGED aux_vars

\* Variant: a failed long-running operation is answered with the record
\* that was submitted.
UpdatePollFails_returns(e) ==
    /\ pc = "u_poll"
    /\ failures' = Append(failures, Failure("create_or_update", e))
    /\ outcome' = Returned(DeploymentValue(pending))
    /\ pc' = "done"
    /\ UNCHANGED <<credential, client, remote, op, current_deployment, pending,
                   reqs, msgs, cmd, exit_code>>
    /\ UNCHANGED aux_vars

UpdatePollFails(e) ==
    /\ pc = "u_poll"
    /\ failures' = Append(failures, Failure("create_or_update", e))
    /\ Leave(msgs, e)
    /\ UNCHANGED <<credential, client, remote, op, current_deployment, pending,
                   reqs, cmd, exit_code>>
    /\ UNCHANGED aux_vars

\* Variant: a declined confirmation aborts the operation with an exception.
DeleteConfirm_abort(answer) ==
    /\ pc = "d_confirm"
    /\ IF answer
         THEN /\ pc' = "d_submit"
              /\ UNCHANGED <<outcome, msgs>>
         ELSE Leave(msgs, [type |-> "Abort", status |-> "None"])
    /\ UNCHANGED <<credential, client, remote, op, current_deployment, pending,
                   reqs, failures, cmd, exit_code>>
    /\ UNCHANGED aux_vars

\* ------------------------------------------------------------------------
\* delete_ptu_deployment (DeploymentManager)
\* ------------------------------------------------------------------------
\* click.confirm inside the operation: a refusal returns None.
DeleteConfirm(answer) ==
    /\ pc = "d_confirm"
    /\ IF answer
         THEN /\ pc' = "d_submit"
              /\ UNCHANGED outcome
         ELSE /\ pc' = "done"
              /\ outcome' = Returned(NoneValue)
    /\ UNCHANGED <<credential, client, remote, op, current_deployment, pending,
                   reqs, msgs, failures, cmd, exit_code>>
    /\ UNCHANGED aux_vars

DeleteSubmit ==
    /\ pc = "d_submit"
    /\ reqs' = Append(reqs, Request("delete", client, NoDeployment))
    /\ pc' = "d_poll"
    /\ UNCHANGED <<credential, client, remote, op, current_deployment, pending,
                   msgs, outcome, failures, cmd, exit_code>>
    /\ UNCHANGED aux_vars

DeleteSubmitFails(e) ==
    /\ pc = "d_submit"
    /\ reqs' = Append(reqs, Request("delete", client, NoDeployment))
    /\ failures' = Append(failures, Failure("delete", e))
    /\ Leave(msgs, e)
    /\ UNCHANGED <<credential, client, remote, op, current_deployment, pending,
                   cmd, exit_code>>
    /\ UNCHANGED aux_vars

\* Variant: the wait for the deletion gives up and the operation returns
\* although the long-running operation has not ended.
DeletePollSucceeds_timeout ==
    /\ pc = "d_poll"
    /\ outcome' = Returned(NoneValue)
    /\ pc' = "done"
    /\ UNCHANGED <<credential, client, remote, op, current_deployment, pending,
                   reqs, msgs, failures, cmd, exit_code>>
    /\ UNCHANGED aux_vars

DeletePollSucceeds ==
    /\ pc = "d_poll"
    /\ remote' = NoDeployment
    /\ outcome' = Returned(NoneValue)
    /\ pc' = "done"
    /\ UNCHANGED <<credential, client, op, current_deployment, pending, reqs,
                   msgs, failures, cmd, exit_code>>
    /\ UNCHANGED aux_vars

DeletePollFails(e) ==
    /\ pc = "d_poll"
    /\ failures' = Append(failures, Failure("delete", e))
    /\ Leave(msgs, e)
    /\ UNCHANGED <<credential, client, remote, op, current_deployment, pending,
                   reqs, cmd, exit_code>>
    /\ UNCHANGED aux_vars

\* ------------------------------------------------------------------------
\* get_deployment_info
\* ------------------------------------------------------------------------
GetInfo ==
    /\ pc = "g_get"
    /\ remote.exists
    /\ reqs' = Append(reqs, Request("get", client, NoDeployment))
    /\ outcome' = Returned(deployment_info(remote))
    /\ pc' = "done"
    /\ UNCHANGED <<credential, client, remote, op, current_deployment, pending,
                   msgs, failures, cmd, exit_code>>
    /\ UNCHANGED aux_vars

GetInfoFails(e) ==
    /\ pc = "g_get"
    /\ reqs' = Append(reqs, Request("get", client, NoDeployment))
    /\ failures' = Append(failures, Failure("get", e))
    /\ Leave(msgs, e)
    /\ UNCHANGED <<credential, client, remote, op, current_deployment, pending,
                   cmd, exit_code>>
    /\ UNCHANGED aux_vars

\* ------------------------------------------------------------------------
\* CLI commands
\* ------------------------------------------------------------------------
\* A command runs in a process of its own, with a new DeploymentManager.
CmdCanStart ==
    /\ pc = "idle"
    /\ cmd = NoCmd

\* create-ptu-deployment, update-ptu-capacity, get-ptu-info: the command
\* calls the operation of the same name.
CmdRun(args) ==
    /\ CmdCanStart
    /\ credential' = "None"
    /\ client' = "None"
    /\ cmd' = [name |-> args.name, stage |-> "op", force |-> FALSE]
    /\ exit_code' = "none"
    /\ failures' = <<>>
    /\ Enter(args)
    /\ UNCHANGED remote
    /\ UNCHANGED aux_vars

\* delete-ptu-deployment: the command first fetches the deployment's
\* information.
CmdDelete(args, force) ==
    /\ CmdCanStart
    /\ credential' = "None"
    /\ client' = "None"
    /\ cmd' = [name |-> "delete", stage |-> "prefetch", force |-> force]
    /\ exit_code' = "none"
    /\ failures' = <<>>
    /\ Enter([args EXCEPT !.name = "get_info"])
    /\ UNCHANGED remote
    /\ UNCHANGED aux_vars

\* delete-ptu-deployment after the fetch: whatever the fetch raised is
\* dropped; without --force the command asks for confirmation; then it
\* calls the delete operation.
CmdDeleteProceed(answer) ==
    /\ cmd.stage = "prefetch"
    /\ pc = "done"
    /\ cmd.force => answer
    /\ IF answer
         THEN /\ cmd' = [cmd EXCEPT !.stage = "op"]
              /\ Enter([op EXCEPT !.name = "delete"])
              /\ UNCHANGED exit_code
         ELSE /\ cmd' = [cmd EXCEPT !.stage = "exited"]
              /\ exit_code' = "0"
              /\ UNCHANGED <<op, pc, current_deployment, pending, reqs, msgs, outcome>>
    /\ UNCHANGED <<credential, client, remote, failures>>
    /\ UNCHANGED aux_vars

\* Variant: the command drops the exception and ends normally.
CmdExit_quiet ==
    /\ cmd.stage = "op"
    /\ pc = "done"
    /\ cmd' = [cmd EXCEPT !.stage = "exited"]
    /\ exit_code' = "0"
    /\ UNCHANGED <<credential, client, remote, pc, op, current_deployment,
                   pending, reqs, msgs, outcome, failures>>
    /\ UNCHANGED aux_vars

\* The operation is over: an exception is echoed by the command, which
\* exits with status 1; otherwise the command ends normally.
CmdExit ==
    /\ cmd.stage = "op"
    /\ pc = "done"
    /\ cmd' = [cmd EXCEPT !.stage = "exited"]
    /\ exit_code' = IF outcome.kind = "raise" THEN "1" ELSE "0"
    /\ msgs' = IF outcome.kind = "raise" THEN Append(msgs, "CommandError") ELSE msgs
    /\ UNCHANGED <<credential, client, remote, pc, op, current_deployment,
                   pending, reqs, outcome, failures>>
    /\ UNCHANGED aux_vars

\* The process of the command is gone, and with it the manager it built.
ProcessEnd ==
    /\ cmd.stage = "exited"
    /\ cmd' = NoCmd
    /\ exit_code' = "none"
    /\ credential' = "None"
    /\ client' = "None"
    /\ pc' = "idle"
    /\ op' = NoOp
    /\ current_deployment' = NoDeployment
    /\ pending' = NoDeployment
    /\ reqs' = <<>>
    /\ msgs' = <<>>
    /\ outcome' = NoOutcome
    /\ failures' = <<>>
    /\ UNCHANGED remote
    /\ UNCHANGED aux_vars

\* ------------------------------------------------------------------------
\* Specification
\* ------------------------------------------------------------------------
Next ==
    \/ \E args \in CreateArgs \cup UpdateArgs \cup DeleteArgs \cup GetInfoArgs : Call(args)
    \/ CallOver
    \/ ClientCached
    \/ ClientFromStoredCredential
    \/ CredentialTested
    \/ CredentialFailed
    \/ CreateValidate
    \/ CreateSubmit
    \/ \E e \in RemoteFailures(credential) : CreateSubmitFails(e)
    \/ CreatePollSucceeds
    \/ \E e \in RemoteFailures(credential) : CreatePollFails(e)
    \/ UpdateGet
    \/ \E e \in RemoteFailures(credential) : UpdateGetFails(e)
    \/ UpdateValidate
    \/ UpdateSubmit
    \/ \E e \in RemoteFailures(credential) : UpdateSubmitFails(e)
    \/ UpdatePollSucceeds
    \/ \E e \in RemoteFailures(credential) : UpdatePollFails(e)
    \/ \E answer \in BOOLEAN : DeleteConfirm(answer)
    \/ DeleteSubmit
    \/ \E e \in RemoteFailures(credential) : DeleteSubmitFails(e)
    \/ DeletePollSucceeds
    \/ \E e \in RemoteFailures(credential) : DeletePollFails(e)
    \/ GetInfo
    \/ \E e \in RemoteFailures(credential) : GetInfoFails(e)
    \/ \E args \in CreateArgs \cup UpdateArgs \cup GetInfoArgs : CmdRun(args)
    \/ \E args \in DeleteArgs, force \in BOOLEAN : CmdDelete(args, force)
    \/ \E answer \in BOOLEAN : CmdDeleteProceed(answer)
    \/ CmdExit
    \/ ProcessEnd

Spec == Init /\ [][Next]_vars

\* ------------------------------------------------------------------------
\* Properties
\* ------------------------------------------------------------------------
MutationKinds == {"create_or_update", "delete"}

EndedInValidationError ==
    /\ pc = "done"
    /\ outcome.kind = "raise"
    /\ outcome.exc.type = "ValueError"

CreateInputInvalid ==
    LET v == validate_ptu_capacity(op.model_name, op.capacity, op.deployment_type)
    IN  v.tag = "return" /\ ~v.ok

\* C1: in create_ptu_deployment, an input that validate_ptu_capacity finds
\* invalid makes the operation fail with a validation error, reported as
\* such, and no remote call is made: no credential test, no client step,
\* no create-or-update submission.
Thm_C1 ==
    (op.name = "create" /\ pc # "c_validate" /\ CreateInputInvalid)
      => /\ pc = "done"
         /\ outcome = Raised(ValueError)
         /\ msgs \in {<<"ValidationError">>, <<"ValidationError", "CommandError">>}
         /\ reqs = <<>>
         /\ failures = <<>>

Wit_C1 ==
    /\ op.name = "create"
    /\ CreateInputInvalid
    /\ pc = "done"
    /\ outcome = Raised(ValueError)

\* C2: when update_ptu_capacity ends in a validation error (no model
\* identity in the fetched record, or invalid new capacity), no
\* create-or-update request was submitted and the remote deployment is
\* still the one that was fetched.
Thm_C2 ==
    (op.name = "update" /\ EndedInValidationError)
      => /\ \A i \in DOMAIN reqs : reqs[i].kind # "create_or_update"
         /\ remote = current_deployment
         /\ pending = NoDeployment

Wit_C2 ==
    /\ op.name = "update"
    /\ EndedInValidationError
    /\ ~no_model_identity(current_deployment)
    /\ remote.capacity # op.capacity

\* C3 as stated: an execution of any of the four operations that ends in a
\* validation error has sent no request at all to the remote boundary.
Orig_C3 ==
    EndedInValidationError => reqs = <<>>

\* C3 amended: an execution that ends in a validation error has sent no
\* mutation request; create has sent no request at all, update has sent
\* the fetch of the existing deployment (after the credential test, when
\* one was needed); delete and get-info never end in a validation error.
Thm_C3 ==
    EndedInValidationError
      => /\ op.name \in {"create", "update"}
         /\ \A i \in DOMAIN reqs : reqs[i].kind \notin MutationKinds
         /\ op.name = "create" => reqs = <<>>
         /\ op.name = "update" =>
              /\ reqs # <<>>
              /\ reqs[Len(reqs)].kind = "get"
              /\ \A i \in 1..(Len(reqs) - 1) : reqs[i].kind = "get_token"

Wit_C3 ==
    /\ op.name = "update"
    /\ EndedInValidationError
    /\ Len(reqs) = 2

\* The tier a deployment is placed in, read from its SKU.
tier_of_sku(sku) ==
    CASE sku = "GlobalProvisionedManaged" -> Str_global
      [] sku = "DataZoneProvisionedManaged" -> Str_data_zone
      [] OTHER -> Str_regional

\* C4: update accepts the new capacity for submission if and only if it is
\* valid for the model of the existing deployment in the tier the
\* existing deployment is in.
Orig_C4 ==
    (/\ op.name = "update"
     /\ current_deployment.exists
     /\ ~no_model_identity(current_deployment)
     /\ pc \in {"u_submit", "done"}
     /\ pc = "done" => EndedInValidationError)
      => ( pc = "u_submit"
           <=> validate_ptu_capacity(current_deployment.model_name, op.capacity,
                                     tier_of_sku(current_deployment.sku_name)).ok )

\* C5: every create-or-update request of update carries the model name,
\* version and format of the record fetched at the start of the update,
\* and the requested new capacity.
Thm_C5 ==
    op.name = "update"
      => \A i \in DOMAIN reqs :
           reqs[i].kind = "create_or_update"
             => /\ current_deployment.exists
                /\ reqs[i].body.has_model
                /\ reqs[i].body.model_name = current_deployment.model_name
                /\ reqs[i].body.model_version = current_deployment.model_version
                /\ reqs[i].body.model_format = current_deployment.model_format
                /\ reqs[i].body.capacity = op.capacity

Wit_C5 ==
    /\ op.name = "update"
    /\ pc = "u_poll"
    /\ current_deployment.model_format = "Custom"
    /\ current_deployment.capacity # op.capacity
    /\ reqs[Len(reqs)].kind = "create_or_update"

\* The SKU that stands for the tier a deployment_type string names, in any
\* letter case: regional, global, and data-zone or datazone.
sku_of_tier(deployment_type) ==
    LET t == lower(deployment_type) IN
    CASE t = Str_global -> "GlobalProvisionedManaged"
      [] t \in {Str_data_zone, Str_datazone} -> "DataZoneProvisionedManaged"
      [] OTHER -> "ProvisionedManaged"

\* C6: the SKU submitted by create and by update is the one of the tier:
\* Regional gives ProvisionedManaged, Global gives GlobalProvisionedManaged,
\* DataZone gives DataZoneProvisionedManaged, for every accepted spelling.
Orig_C6 ==
    \A i \in DOMAIN reqs :
      reqs[i].kind = "create_or_update"
        => reqs[i].body.sku_name = sku_of_tier(op.deployment_type)

LastFailure == failures[Len(failures)]

\* The running operation is over and a remote call of it failed.
OperationFailed ==
    /\ pc = "done"
    /\ failures # <<>>
    /\ LastFailure.op = op.name

\* C7: get_deployment_info returns None exactly when the fetch fails with
\* a 404; every other remote failure is raised to the caller unchanged;
\* a fetch that succeeds returns the record of the remote deployment.
Thm_C7 ==
    (op.name = "get_info" /\ pc = "done")
      => IF failures = <<>>
           THEN /\ outcome.kind = "return"
                /\ outcome.value.tag = "info"
                /\ outcome.value.d.sku_name = remote.sku_name
                /\ outcome.value.d.capacity = remote.capacity
         ELSE IF /\ LastFailure.kind = "get"
                 /\ LastFailure.exc = HttpError("404")
           THEN outcome = Returned(NoneValue)
         ELSE outcome = Raised(LastFailure.exc)

Wit_C7 ==
    /\ op.name = "get_info"
    /\ pc = "done"
    /\ failures # <<>>
    /\ LastFailure.exc = HttpError("404")
    /\ outcome = Returned(NoneValue)

\* A not-found answer to get-info's fetch.
IsGetInfoNotFound(f) ==
    f.op = "get_info" /\ f.kind = "get" /\ f.exc.status = "404"

\* C8 as stated: a lifecycle command in which some remote call failed,
\* other than get-info's not-found, ends with an error (a delete that the
\* operator cancelled at a confirmation prompt is left aside).
Orig_C8 ==
    (/\ cmd.stage = "exited"
     /\ ~(cmd.name = "delete" /\ \A i \in DOMAIN reqs : reqs[i].kind # "delete")
     /\ \E i \in DOMAIN failures : ~IsGetInfoNotFound(failures[i]))
      => exit_code = "1"

\* C8 amended: a lifecycle command in which some remote call failed, other
\* than get-info's not-found and other than a failure of the information
\* fetch that the delete command makes before deleting, ends with an error
\* status and an error message; failures of that preliminary fetch are
\* dropped and the delete command goes on.
Thm_C8 ==
    (/\ cmd.stage = "exited"
     /\ \E i \in DOMAIN failures :
          /\ ~IsGetInfoNotFound(failures[i])
          /\ ~(cmd.name = "delete" /\ failures[i].op = "get_info"))
      => /\ exit_code = "1"
         /\ outcome.kind = "raise"
         /\ msgs # <<>>
         /\ msgs[Len(msgs)] = "CommandError"

Wit_C8 ==
    /\ cmd.stage = "exited"
    /\ cmd.name = "delete"
    /\ Len(failures) = 2
    /\ failures[1].op = "get_info"
    /\ failures[2].op = "delete"
    /\ exit_code = "1"

\* The messages echoed by the operation itself.
ManagerMsgs == SelectSeq(msgs, LAMBDA m : m # "CommandError")

\* The one classification of the error taxonomy.
Classify(f) ==
    IF f.kind = "get_token" \/ f.exc.type = "ClientAuthenticationError"
      THEN "AuthenticationRequired"
    ELSE IF f.exc.status = "404" THEN "NotFound"
    ELSE IF f.exc.status = "429" THEN "CapacityUnavailable"
    ELSE IF f.exc.status = "403" THEN "QuotaInsufficient"
    ELSE IF f.exc.status # "None" THEN "RemoteError"
    ELSE "TransportError"

ReportedByOperation ==
    [create |-> [s \in Statuses |->
                   CASE s = "429" -> "CapacityUnavailable"
                     [] s = "403" -> "QuotaInsufficient"
                     [] OTHER -> "RemoteError"],
     update |-> [s \in Statuses |->
                   CASE s = "404" -> "NotFound"
                     [] s = "429" -> "CapacityUnavailable"
                     [] s = "403" -> "QuotaInsufficient"
                     [] OTHER -> "RemoteError"],
     delete |-> [s \in Statuses |->
                   CASE s = "404" -> "NotFound"
                     [] OTHER -> "RemoteError"],
     get_info |-> [s \in Statuses |->
                   CASE s = "404" -> "NotFound"
                     [] OTHER -> ""]]

MutationRequests == {i \in DOMAIN reqs : reqs[i].kind \in MutationKinds}

\* C10: one execution of create, update or delete submits at most one
\* mutation request, and when that request or its long-running operation
\* fails the failure is raised to the caller with no second submission.
Thm_C10 ==
    /\ Cardinality(MutationRequests) <= 1
    /\ \A i \in DOMAIN failures :
         failures[i].kind \in MutationKinds
           => /\ i = Len(failures)
              /\ pc = "done"
              /\ outcome = Raised(failures[i].exc)
              /\ Cardinality(MutationRequests) = 1

Wit_C10 ==
    /\ op.name = "create"
    /\ pc = "done"
    /\ failures # <<>>
    /\ LastFailure.kind = "create_or_update"
    /\ LastFailure.exc = HttpError("429")
    /\ outcome = Raised(HttpError("429"))

\* ------------------------------------------------------------------------
\* The validator exercised alone
\* ------------------------------------------------------------------------
MaxNameLen == 3

NameChars == {"m", "M", "a", "A", "b", "-", "_"}

\* The strings over NameChars of length 1 to n.
RECURSIVE StringsUpTo(_)
StringsUpTo(n) ==
    IF n = 0 THEN {}
    ELSE StringsUpTo(n - 1) \cup [1..n -> NameChars]

ValidatorNames == StringsUpTo(MaxNameLen)

ValidatorCapacities == (0 - 2)..MaxCapacity

Str_GLOBAL == <<"G", "L", "O", "B", "A", "L">>
Str_DATA_ZONE == <<"D", "A", "T", "A", "-", "Z", "O", "N", "E">>
Str_DataZone == <<"D", "a", "t", "a", "Z", "o", "n", "e">>
Str_REGIONAL == <<"R", "E", "G", "I", "O", "N", "A", "L">>
Str_data_underscore_zone == <<"d", "a", "t", "a", "_", "z", "o", "n", "e">>
Str_globe == <<"g", "l", "o", "b", "e">>

ValidatorTiers ==
    { Str_regional, Str_REGIONAL, Str_global, Str_Global, Str_GLOBAL,
      Str_data_zone, Str_DATA_ZONE, Str_datazone, Str_DataZone,
      Str_data_underscore_zone, Str_globe, <<>> }

ValidateInit ==
    /\ v_in \in [model_name : ValidatorNames, capacity : ValidatorCapacities,
                 deployment_type : ValidatorTiers]
    /\ v_out = NoResult
    /\ StoreIdle
    /\ RaceIdle
    /\ CommandIdle
    /\ ManagerIdle

\* validate_ptu_capacity is called with the arguments and returns.
Validate ==
    /\ v_out = NoResult
    /\ v_out' = validate_ptu_capacity(v_in.model_name, v_in.capacity, v_in.deployment_type)
    /\ UNCHANGED <<v_in, store_vars, race_vars, command_vars, manager_vars>>

ValidateNext == Validate

SpecValidate == ValidateInit /\ [][ValidateNext]_vars

\* ------------------------------------------------------------------------
\* Claims about the validator
\* ------------------------------------------------------------------------
Validated == v_out # NoResult

\* The name matches a key of the table, exactly or through one of the five
\* alternative spellings.
KnownName(model_name) ==
    \/ model_name \in DOMAIN ptu_requirements
    \/ \E i \in DOMAIN alt_keys(model_name) :
          alt_keys(model_name)[i] \in DOMAIN ptu_requirements

\* d is a non-negative multiple of k.
Multiple(d, k) == \E n \in 0..d : d = n * k

\* The requirements the call selects.
SelectedMinNone ==
    /\ ~is_global_type(v_in.deployment_type)
    /\ ptu_requirements[model_key(v_in.model_name)].regional_none

SelectedMin ==
    IF is_global_type(v_in.deployment_type)
    THEN ptu_requirements[model_key(v_in.model_name)].global_min
    ELSE ptu_requirements[model_key(v_in.model_name)].regional_min

SelectedIncrement ==
    IF is_global_type(v_in.deployment_type)
    THEN ptu_requirements[model_key(v_in.model_name)].global_increment
    ELSE ptu_requirements[model_key(v_in.model_name)].regional_increment

\* C11: for a model of the table and a tier whose selected minimum is not
\* null, the call is valid exactly when capacity >= min and capacity - min
\* is a multiple of the increment; it is invalid with kind MinCapacity when
\* capacity < min, and invalid with kind IncrementMismatch when
\* capacity >= min and capacity - min is not a multiple of the increment.
Thm_C11 ==
    (Validated /\ KnownName(v_in.model_name) /\ ~SelectedMinNone) =>
        /\ v_out.tag = "return"
        /\ v_out.ok <=> /\ v_in.capacity >= SelectedMin
                        /\ Multiple(v_in.capacity - SelectedMin, SelectedIncrement)
        /\ v_in.capacity < SelectedMin =>
              (~v_out.ok /\ v_out.kind = "MinCapacity")
        /\ (/\ v_in.capacity >= SelectedMin
            /\ ~Multiple(v_in.capacity - SelectedMin, SelectedIncrement)) =>
              (~v_out.ok /\ v_out.kind = "IncrementMismatch")

\* min + 1 was refused for an increment above one.
Wit_C11 ==
    /\ Validated
    /\ KnownName(v_in.model_name)
    /\ ~SelectedMinNone
    /\ SelectedIncrement > 1
    /\ v_in.capacity = SelectedMin + 1
    /\ v_out.kind = "IncrementMismatch"

\* C12: for a model whose regional minimum is null, a call with a tier of
\* the regional bucket is invalid with kind UnsupportedTier for every
\* capacity, including the capacities the minimum and increment checks
\* would refuse or accept.
Thm_C12 ==
    (Validated /\ KnownName(v_in.model_name) /\ SelectedMinNone) =>
        /\ v_out.tag = "return"
        /\ ~v_out.ok
        /\ v_out.kind = "UnsupportedTier"

\* A negative capacity on the regional tier of a model without one.
Wit_C12 ==
    /\ Validated
    /\ KnownName(v_in.model_name)
    /\ SelectedMinNone
    /\ v_in.capacity < 0
    /\ v_out.kind = "UnsupportedTier"

\* C13: for a name that matches no key of the table, neither exactly nor
\* through one of the five alternative spellings, the call returns
\* (True, "") for every capacity, zero and negative ones included, and
\* every tier string.
Thm_C13 ==
    (Validated /\ ~KnownName(v_in.model_name)) => v_out = ValidResult

\* A negative capacity was accepted for an unknown model.
Wit_C13 ==
    /\ Validated
    /\ ~KnownName(v_in.model_name)
    /\ v_in.capacity < 0
    /\ is_global_type(v_in.deployment_type)
    /\ v_out = ValidResult

\* The spellings that resolve to the key the call's name resolves to.
SameKeySpellings ==
    {n \in ValidatorNames : model_key(n) = model_key(v_in.model_name)}

\* C14 as stated: two spellings that resolve to the same key of the table
\* give the same result, validity and message, for every capacity and
\* tier.
Orig_C14 ==
    (Validated /\ KnownName(v_in.model_name)) =>
        \A n \in SameKeySpellings :
            validate_ptu_capacity(n, v_in.capacity, v_in.deployment_type) = v_out

\* C14: two spellings that resolve to the same key of the table give the
\* same validity, the same kind of refusal and the same tier name, limit
\* and capacity in the message; the message names the model as each call
\* spelled it.
Thm_C14 ==
    (Validated /\ KnownName(v_in.model_name)) =>
        \A n \in SameKeySpellings :
            LET other == validate_ptu_capacity(n, v_in.capacity, v_in.deployment_type)
            IN  /\ [other EXCEPT !.model_name = <<>>] = [v_out EXCEPT !.model_name = <<>>]
                /\ ~other.ok => other.model_name = n

\* A refusal for a spelling that is not the key itself.
Wit_C14 ==
    /\ Validated
    /\ KnownName(v_in.model_name)
    /\ v_in.model_name \notin DOMAIN ptu_requirements
    /\ Cardinality(SameKeySpellings) > 2
    /\ ~v_out.ok

\* Two characters that are the same letter in either case.
SameLetter(a, b) ==
    \/ a = b
    \/ a \in DOMAIN UpperToLower /\ UpperToLower[a] = b
    \/ b \in DOMAIN UpperToLower /\ UpperToLower[b] = a

EqualsIgnoringCase(s, t) ==
    /\ Len(s) = Len(t)
    /\ \A i \in 1..Len(s) : SameLetter(s[i], t[i])

\* The tier string is global, data-zone or datazone in some letter case.
GlobalSpelling(deployment_type) ==
    \E t \in {Str_global, Str_data_zone, Str_datazone} :
        EqualsIgnoringCase(deployment_type, t)

\* C15: the tier strings global, data-zone and datazone in any letter case
\* select the global minimum and increment, every other string selects the
\* regional ones: a call behaves as the call with the tier "global" in the
\* first case and as the call with the tier "regional" in the second, and
\* a refusal carries the limit of the pair selected.
Thm_C15 ==
    (Validated /\ KnownName(v_in.model_name)) =>
        LET requirements == ptu_requirements[model_key(v_in.model_name)]
            glob == GlobalSpelling(v_in.deployment_type)
        IN  /\ v_out = validate_ptu_capacity(v_in.model_name, v_in.capacity,
                           IF glob THEN Str_global ELSE Str_regional)
            /\ v_out.kind = "MinCapacity" =>
                  /\ v_out.type_name = IF glob THEN "Global/Data Zone" ELSE "Regional"
                  /\ v_out.limit = IF glob THEN requirements.global_min
                                   ELSE requirements.regional_min
            /\ v_out.kind = "IncrementMismatch" =>
                  /\ v_out.type_name = IF glob THEN "Global/Data Zone" ELSE "Regional"
                  /\ v_out.limit = IF glob THEN requirements.global_increment
                                   ELSE requirements.regional_increment
            /\ v_out.kind = "UnsupportedTier" => ~glob

\* An upper-case spelling of data-zone was refused against the global
\* minimum.
Wit_C15 ==
    /\ Validated
    /\ KnownName(v_in.model_name)
    /\ v_in.deployment_type = Str_DATA_ZONE
    /\ v_out.kind = "MinCapacity"
    /\ v_out.type_name = "Global/Data Zone"

\* ------------------------------------------------------------------------
\* StateManager and the session file
\* ------------------------------------------------------------------------
MaxTime == 602

expiration_minutes == 5
expiration_seconds == expiration_minutes * 60

Keys == {"current_project", "projects_cache", "resource_group", "subscription"}

\* A file that is not JSON.
CorruptFile == [kind |-> "corrupt", has_timestamp |-> FALSE, timestamp |-> 0,
                state |-> EmptyState]

\* The values the typed setters store.
project_info(project_name, project_endpoint, t) ==
    [name |-> project_name, endpoint |-> project_endpoint, set_at |-> t]
rg_info(resource_group, t) == [name |-> resource_group, set_at |-> t]
sub_info(subscription, t) == [id |-> subscription, set_at |-> t]

ProjectNames == {"p1"}
ProjectEndpoints == {"None", "e1"}
ProjectLists == {<<>>, <<"p1">>}
ResourceGroups == {"rg1"}
SubscriptionIds == {"sub1"}

\* Entries an earlier session left in the file.
EarlierEntries ==
    ("resource_group" :> rg_info("rg1", 0)) @@ ("subscription" :> sub_info("sub1", 0))

\* A JSON file without the timestamp field.
UntimedFile == [kind |-> "json", has_timestamp |-> FALSE, timestamp |-> 0,
                state |-> EarlierEntries]

\* _save_state: the file holds the time of the write and the whole state.
_save_state(state, current_time) ==
    [kind |-> "json", has_timestamp |-> TRUE, timestamp |-> current_time,
     state |-> state]

InitialFiles == {NoFile, CorruptFile, UntimedFile, _save_state(EarlierEntries, 0)}

\* _clear_state: the state is empty and the file is removed.
_clear_state_keepFile(f) == [state |-> EmptyState, file |-> f]

_clear_state(f) == [state |-> EmptyState, file |-> NoFile]

\* _load_state: what the constructor leaves in memory and on disk.
_load_state_inclusive(f, current_time) ==
    IF f.kind = "absent"
      THEN [state |-> EmptyState, file |-> f, branch |-> "absent"]
    ELSE IF f.kind = "corrupt"
      THEN [state |-> EmptyState, file |-> f, branch |-> "corrupt"]
    ELSE IF ~f.has_timestamp
      THEN _clear_state(f) @@ [branch |-> "no_timestamp"]
    ELSE IF current_time - f.timestamp <= expiration_seconds
      THEN [state |-> f.state, file |-> _save_state(f.state, current_time),
            branch |-> "fresh"]
    ELSE _clear_state(f) @@ [branch |-> "expired"]

_load_state_noRefresh(f, current_time) ==
    IF f.kind = "absent"
      THEN [state |-> EmptyState, file |-> f, branch |-> "absent"]
    ELSE IF f.kind = "corrupt"
      THEN [state |-> EmptyState, file |-> f, branch |-> "corrupt"]
    ELSE IF ~f.has_timestamp
      THEN _clear_state(f) @@ [branch |-> "no_timestamp"]
    ELSE IF current_time - f.timestamp < expiration_seconds
      THEN [state |-> f.state, file |-> f, branch |-> "fresh"]
    ELSE _clear_state(f) @@ [branch |-> "expired"]

_load_state_keepUntimed(f, current_time) ==
    IF f.kind = "absent"
      THEN [state |-> EmptyState, file |-> f, branch |-> "absent"]
    ELSE IF f.kind = "corrupt"
      THEN [state |-> EmptyState, file |-> f, branch |-> "corrupt"]
    ELSE IF ~f.has_timestamp
      THEN [state |-> f.state, file |-> _save_state(f.state, current_time),
            branch |-> "no_timestamp"]
    ELSE IF current_time - f.timestamp < expiration_seconds
      THEN [state |-> f.state, file |-> _save_state(f.state, current_time),
            branch |-> "fresh"]
    ELSE _clear_state(f) @@ [branch |-> "expired"]

_load_state_perEntry(f, current_time) ==
    IF f.kind = "absent"
      THEN [state |-> EmptyState, file |-> f, branch |-> "absent"]
    ELSE IF f.kind = "corrupt"
      THEN [state |-> EmptyState, file |-> f, branch |-> "corrupt"]
    ELSE IF ~f.has_timestamp
      THEN _clear_state(f) @@ [branch |-> "no_timestamp"]
    ELSE IF current_time - f.timestamp < expiration_seconds
      THEN LET kept == {k \in DOMAIN f.state :
                           k # "projects_cache" =>
                              current_time - f.state[k].set_at < expiration_seconds}
               state == [k \in kept |-> f.state[k]]
           IN  [state |-> state, file |-> _save_state(state, current_time),
                branch |-> "fresh"]
    ELSE _clear_state(f) @@ [branch |-> "expired"]

_load_state(f, current_time) ==
    IF f.kind = "absent"
      THEN [state |-> EmptyState, file |-> f, branch |-> "absent"]
    ELSE IF f.kind = "corrupt"
      THEN [state |-> EmptyState, file |-> f, branch |-> "corrupt"]
    ELSE IF ~f.has_timestamp
      THEN _clear_state(f) @@ [branch |-> "no_timestamp"]
    ELSE IF current_time - f.timestamp < expiration_seconds
      THEN [state |-> f.state, file |-> _save_state(f.state, current_time),
            branch |-> "fresh"]
    ELSE _clear_state(f) @@ [branch |-> "expired"]

\* get(key, default)
get(state, key, default) == IF key \in DOMAIN state THEN state[key] ELSE default

\* self.state[key] = value
Assign(state, key, value) ==
    [k \in DOMAIN state \cup {key} |-> IF k = key THEN value ELSE state[k]]

\* del self.state[key]
Delete(state, key) == [k \in DOMAIN state \ {key} |-> state[k]]

StoreInit ==
    /\ file \in InitialFiles
    /\ now = 0
    /\ mem = EmptyState
    /\ s_pc = "none"
    /\ s_last = NoMethod
    /\ RaceIdle
    /\ CommandIdle
    /\ ValidatorIdle
    /\ ManagerIdle

StoreUnchanged == UNCHANGED <<validator_vars, manager_vars, race_vars, command_vars>>

\* The record of a method that ran: its name, its key, the branch it took,
\* the time, the age of the file it read, and the method that ran before.
Called(method, key, branch, age) ==
    [method |-> method, key |-> key, branch |-> branch, at |-> now, age |-> age,
     prev |-> s_last.method]

\* A process starts: StateManager() runs _load_state.
StateManagerInit ==
    /\ s_pc = "none"
    /\ LET loaded == _load_state(file, now)
       IN  /\ mem' = loaded.state
           /\ file' = loaded.file
           /\ s_last' = Called("__init__", "", loaded.branch,
                                IF file.has_timestamp THEN now - file.timestamp ELSE 0)
    /\ s_pc' = "ready"
    /\ UNCHANGED now
    /\ StoreUnchanged

\* set(key, value), called by name as method: the state is changed, then
\* saved.
set_onlyKey(method, key, value) ==
    /\ s_pc = "ready"
    /\ mem' = Assign(mem, key, value)
    /\ file' = _save_state(Assign(EmptyState, key, value), now)
    /\ s_last' = Called(method, key, "saved", 0)
    /\ UNCHANGED <<now, s_pc>>
    /\ StoreUnchanged

set(method, key, value) ==
    /\ s_pc = "ready"
    /\ mem' = Assign(mem, key, value)
    /\ file' = _save_state(Assign(mem, key, value), now)
    /\ s_last' = Called(method, key, "saved", 0)
    /\ UNCHANGED <<now, s_pc>>
    /\ StoreUnchanged

set_current_project(project_name, project_endpoint) ==
    set("set_current_project", "current_project",
        project_info(project_name, project_endpoint, now))

set_projects_cache(projects) ==
    set("set_projects_cache", "projects_cache", projects)

set_resource_group(resource_group) ==
    set("set_resource_group", "resource_group", rg_info(resource_group, now))

set_subscription(subscription) ==
    set("set_subscription", "subscription", sub_info(subscription, now))

\* remove(key): a key of the state is deleted and the state saved; any
\* other key changes nothing.
remove(key) ==
    /\ s_pc = "ready"
    /\ IF key \in DOMAIN mem
       THEN /\ mem' = Delete(mem, key)
            /\ file' = _save_state(Delete(mem, key), now)
            /\ s_last' = Called("remove", key, "saved", 0)
       ELSE /\ UNCHANGED <<mem, file>>
            /\ s_last' = Called("remove", key, "absent", 0)
    /\ UNCHANGED <<now, s_pc>>
    /\ StoreUnchanged

\* clear()
clear ==
    /\ s_pc = "ready"
    /\ mem' = _clear_state(file).state
    /\ file' = _clear_state(file).file
    /\ s_last' = Called("clear", "", "", 0)
    /\ UNCHANGED <<now, s_pc>>
    /\ StoreUnchanged

\* The process ends; its memory is gone, the file stays.
StoreExit ==
    /\ s_pc = "ready"
    /\ s_pc' = "none"
    /\ mem' = EmptyState
    /\ UNCHANGED <<file, now, s_last>>
    /\ StoreUnchanged

\* Time passes: one second less than the window, the window, or one
\* second more.
Tick(d) ==
    /\ now + d <= MaxTime
    /\ now' = now + d
    /\ UNCHANGED <<file, mem, s_pc, s_last>>
    /\ StoreUnchanged

StoreNext ==
    \/ StateManagerInit
    \/ \E n \in ProjectNames, e \in ProjectEndpoints : set_current_project(n, e)
    \/ \E l \in ProjectLists : set_projects_cache(l)
    \/ \E r \in ResourceGroups : set_resource_group(r)
    \/ \E i \in SubscriptionIds : set_subscription(i)
    \/ \E k \in Keys : remove(k)
    \/ clear
    \/ StoreExit
    \/ \E d \in {expiration_seconds - 1, expiration_seconds, expiration_seconds + 1} : Tick(d)

SpecStore == StoreInit /\ [][StoreNext]_vars

\* ------------------------------------------------------------------------
\* Claims about the session store
\* ------------------------------------------------------------------------
\* The step is the load of a new process.
LoadStep == s_pc = "none" /\ s_pc' = "ready"

\* The file is JSON and carries a timestamp.
Stamped(f) == f.kind = "json" /\ f.has_timestamp

Setters == {"set_current_project", "set_projects_cache", "set_resource_group",
            "set_subscription"}

\* The entries of the file; none when there is no file.
FileEntries(f) == IF f.kind = "json" THEN f.state ELSE EmptyState

NoDefault == [default |-> TRUE]

Thm_C19 ==
    [][(s_pc = "ready" /\ s_pc' = "ready" /\ s_last' # s_last) =>
         /\ s_last'.method \in Setters =>
               /\ Stamped(file')
               /\ file'.timestamp = now
               /\ s_last'.key \in DOMAIN file'.state
               /\ file'.state = mem'
               /\ \A k \in DOMAIN mem \ {s_last'.key} :
                     k \in DOMAIN file'.state /\ file'.state[k] = mem[k]
         /\ (s_last'.method \in Setters \cup {"clear"} \/ s_last'.branch = "saved") =>
               FileEntries(file') = mem']_vars

\* A setter ran when another key had been set earlier.
Wit_C19 ==
    /\ s_pc = "ready"
    /\ s_last.method = "set_subscription"
    /\ s_last.prev = "__init__"
    /\ s_last.at = now
    /\ "resource_group" \in DOMAIN mem
    /\ mem["resource_group"].set_at < now
    /\ file.state = mem
    /\ file.timestamp = now

SaveFailures == {"open", "write"}

_save_state_fails(f, how) == IF how = "open" THEN f ELSE CorruptFile

\* set(key, value) when _save_state fails: the exception is caught and
\* echoed as a warning, the state keeps the new value.
set_fails_rollback(method, key, value, how) ==
    /\ s_pc = "ready"
    /\ mem' = mem
    /\ file' = _save_state_fails(file, how)
    /\ s_last' = Called(method, key, "save_failed", 0)
    /\ UNCHANGED <<now, s_pc>>
    /\ StoreUnchanged

set_fails(method, key, value, how) ==
    /\ s_pc = "ready"
    /\ mem' = Assign(mem, key, value)
    /\ file' = _save_state_fails(file, how)
    /\ s_last' = Called(method, key, "save_failed", 0)
    /\ UNCHANGED <<now, s_pc>>
    /\ StoreUnchanged

\* remove(key) of a present key when _save_state fails.
remove_fails(key, how) ==
    /\ s_pc = "ready"
    /\ key \in DOMAIN mem
    /\ mem' = Delete(mem, key)
    /\ file' = _save_state_fails(file, how)
    /\ s_last' = Called("remove", key, "save_failed", 0)
    /\ UNCHANGED <<now, s_pc>>
    /\ StoreUnchanged

\* StateManager() on a fresh file when the refresh of the timestamp fails.
StateManagerInit_saveFails(how) ==
    /\ s_pc = "none"
    /\ _load_state(file, now).branch = "fresh"
    /\ mem' = _load_state(file, now).state
    /\ file' = _save_state_fails(file, how)
    /\ s_last' = Called("__init__", "", "save_failed", now - file.timestamp)
    /\ s_pc' = "ready"
    /\ UNCHANGED now
    /\ StoreUnchanged

\* _clear_state when os.remove raises: the exception is dropped and the
\* file stays. It is reached from clear() and from the load of an expired
\* or untimed file.
clear_removeFails ==
    /\ s_pc = "ready"
    /\ file.kind # "absent"
    /\ mem' = EmptyState
    /\ s_last' = Called("clear", "", "remove_failed", 0)
    /\ UNCHANGED <<file, now, s_pc>>
    /\ StoreUnchanged

StateManagerInit_removeFails ==
    /\ s_pc = "none"
    /\ _load_state(file, now).branch \in {"expired", "no_timestamp"}
    /\ mem' = EmptyState
    /\ s_last' = Called("__init__", "", "remove_failed",
                        IF file.has_timestamp THEN now - file.timestamp ELSE 0)
    /\ s_pc' = "ready"
    /\ UNCHANGED <<file, now>>
    /\ StoreUnchanged

\* The store with the resource group and the subscription as its entries.
StoreFaultsNext ==
    \/ StateManagerInit
    \/ \E r \in ResourceGroups : set_resource_group(r)
    \/ \E i \in SubscriptionIds : set_subscription(i)
    \/ \E k \in {"resource_group", "subscription"} : remove(k)
    \/ clear
    \/ StoreExit
    \/ \E d \in {expiration_seconds - 1, expiration_seconds, expiration_seconds + 1} : Tick(d)
    \/ \E r \in ResourceGroups, how \in SaveFailures :
          set_fails("set_resource_group", "resource_group", rg_info(r, now), how)
    \/ \E i \in SubscriptionIds, how \in SaveFailures :
          set_fails("set_subscription", "subscription", sub_info(i, now), how)
    \/ \E k \in {"resource_group", "subscription"}, how \in SaveFailures :
          remove_fails(k, how)
    \/ \E how \in SaveFailures : StateManagerInit_saveFails(how)
    \/ clear_removeFails
    \/ StateManagerInit_removeFails

SpecStoreFaults == StoreInit /\ [][StoreFaultsNext]_vars

\* ------------------------------------------------------------------------
\* Claims about failed writes and about expiry
\* ------------------------------------------------------------------------
\* C21: when the write of the session file fails during a setter, a
\* remove or the refresh of a load, the method returns to its caller (the
\* process goes on), memory holds the mutation (the new value, the key
\* gone, the loaded entries), and it still holds it at every later moment
\* of the process until the next method runs.
Thm_C21 ==
    [][/\ (s_last'.branch = "save_failed" /\ s_last' # s_last) =>
             /\ s_pc' = "ready"
             /\ file' \in {file, CorruptFile}
             /\ s_last'.method \in Setters =>
                   /\ DOMAIN mem' = DOMAIN mem \cup {s_last'.key}
                   /\ mem'[s_last'.key].set_at = now
                   /\ \A k \in DOMAIN mem \ {s_last'.key} : mem'[k] = mem[k]
             /\ s_last'.method = "remove" =>
                   /\ s_last'.key \in DOMAIN mem
                   /\ mem' = Delete(mem, s_last'.key)
             /\ s_last'.method = "__init__" =>
                   /\ Stamped(file)
                   /\ mem' = file.state
       /\ (s_pc = "ready" /\ s_pc' = "ready" /\ s_last.branch = "save_failed"
             /\ s_last' = s_last) =>
             mem' = mem
       /\ (s_pc = "ready" /\ s_last.branch = "save_failed"
             /\ s_last.method \in Setters) =>
             /\ s_last.key \in DOMAIN mem
             /\ get(mem, s_last.key, NoDefault).set_at = s_last.at]_vars

\* A setter whose write failed: the value is in memory while the file
\* still holds the state without it, one window later.
Wit_C21 ==
    /\ s_pc = "ready"
    /\ s_last.branch = "save_failed"
    /\ s_last.method = "set_subscription"
    /\ now > s_last.at
    /\ "subscription" \in DOMAIN mem
    /\ mem["subscription"].set_at = s_last.at
    /\ Stamped(file)
    /\ "subscription" \notin DOMAIN file.state

\* C22: a load brings every entry of the file into memory or none: the
\* state in memory after a load is the state of the file or the empty
\* state, so no entry is dropped while another one, written earlier or
\* later, is kept.
Thm_C22 ==
    [][LoadStep =>
         /\ (mem' = EmptyState \/ (file.kind = "json" /\ mem' = file.state))
         /\ \A k1, k2 \in DOMAIN FileEntries(file) :
               (k1 \in DOMAIN mem') <=> (k2 \in DOMAIN mem')]_vars

\* A load kept an entry written more than one window ago together with a
\* younger one.
Wit_C22 ==
    /\ s_pc = "ready"
    /\ s_last.method = "__init__"
    /\ s_last.branch = "fresh"
    /\ s_last.at = now
    /\ {"resource_group", "current_project"} \subseteq DOMAIN mem
    /\ now - mem["resource_group"].set_at > expiration_seconds
    /\ now - mem["current_project"].set_at < expiration_seconds

\* ------------------------------------------------------------------------
\* Two processes that share the session file
\* ------------------------------------------------------------------------
Procs == {"A", "B"}

StateOf(p) == IF p = "A" THEN mem ELSE mem_b
PcOf(p) == IF p = "A" THEN s_pc ELSE s_pc_b

\* Process p ends the step with the state m and the position c; the other
\* process keeps its own.
ProcBecomes(p, m, c) ==
    IF p = "A"
    THEN mem' = m /\ s_pc' = c /\ UNCHANGED <<mem_b, s_pc_b>>
    ELSE mem_b' = m /\ s_pc_b' = c /\ UNCHANGED <<mem, s_pc>>

RaceUnchanged == UNCHANGED <<validator_vars, manager_vars, command_vars>>

RaceInit ==
    /\ file \in {NoFile, _save_state(EarlierEntries, 0)}
    /\ now = 0
    /\ mem = EmptyState
    /\ s_pc = "none"
    /\ s_last = NoMethod
    /\ RaceIdle
    /\ CommandIdle
    /\ ValidatorIdle
    /\ ManagerIdle

\* Process p starts: StateManager() runs _load_state on the shared file.
ProcInit(p) ==
    /\ PcOf(p) = "none"
    /\ LET loaded == _load_state(file, now)
       IN  /\ ProcBecomes(p, loaded.state, "ready")
           /\ file' = loaded.file
           /\ s_last' = Called("__init__", "", loaded.branch,
                                IF file.has_timestamp THEN now - file.timestamp ELSE 0)
    /\ s_who' = p
    /\ UNCHANGED now
    /\ RaceUnchanged

\* set(key, value) in process p: its own state is changed and written
\* over the file, whatever the file holds by now.
ProcSet_merge(p, method, key, value) ==
    /\ PcOf(p) = "ready"
    /\ ProcBecomes(p, Assign(StateOf(p), key, value), "ready")
    /\ file' = _save_state(Assign(FileEntries(file), key, value), now)
    /\ s_last' = Called(method, key, "saved", 0)
    /\ s_who' = p
    /\ UNCHANGED now
    /\ RaceUnchanged

ProcSet(p, method, key, value) ==
    /\ PcOf(p) = "ready"
    /\ ProcBecomes(p, Assign(StateOf(p), key, value), "ready")
    /\ file' = _save_state(Assign(StateOf(p), key, value), now)
    /\ s_last' = Called(method, key, "saved", 0)
    /\ s_who' = p
    /\ UNCHANGED now
    /\ RaceUnchanged

\* clear() in process p.
ProcClear(p) ==
    /\ PcOf(p) = "ready"
    /\ ProcBecomes(p, _clear_state(file).state, "ready")
    /\ file' = _clear_state(file).file
    /\ s_last' = Called("clear", "", "", 0)
    /\ s_who' = p
    /\ UNCHANGED now
    /\ RaceUnchanged

\* Process p ends.
ProcExit(p) ==
    /\ PcOf(p) = "ready"
    /\ ProcBecomes(p, EmptyState, "none")
    /\ UNCHANGED <<file, now, s_last, s_who>>
    /\ RaceUnchanged

RaceTick(d) ==
    /\ now + d <= MaxTime
    /\ now' = now + d
    /\ UNCHANGED <<file, mem, s_pc, s_last, race_vars>>
    /\ RaceUnchanged

RaceNext ==
    \/ \E p \in Procs : ProcInit(p)
    \/ \E p \in Procs, r \in ResourceGroups :
          ProcSet(p, "set_resource_group", "resource_group", rg_info(r, now))
    \/ \E p \in Procs, i \in SubscriptionIds :
          ProcSet(p, "set_subscription", "subscription", sub_info(i, now))
    \/ \E p \in Procs : ProcClear(p)
    \/ \E p \in Procs : ProcExit(p)
    \/ \E d \in {expiration_seconds - 1, expiration_seconds, expiration_seconds + 1} : RaceTick(d)

SpecStoreRace == RaceInit /\ [][RaceNext]_vars

\* The step is a set of process p.
SetStepOf(p) ==
    /\ PcOf(p) = "ready"
    /\ PcOf(p)' = "ready"
    /\ s_who' = p
    /\ s_last'.method \in Setters
    /\ <<file, s_last, s_who, StateOf(p)>>' # <<file, s_last, s_who, StateOf(p)>>

\* C23: a set writes the writer's own state over the file without reading
\* it: after the set the file holds the writer's blob, and every entry the
\* file held that the writer had not loaded is gone. So when A and B have
\* both loaded the file, A sets resource_group and B then sets
\* subscription, the file holds B's blob without A's resource_group.
Thm_C23 ==
    [][\A p \in Procs : SetStepOf(p) =>
          /\ Stamped(file')
          /\ file'.state = StateOf(p)'
          /\ DOMAIN file'.state = DOMAIN StateOf(p) \cup {s_last'.key}
          /\ \A k \in DOMAIN file'.state \ {s_last'.key} :
                file'.state[k] = StateOf(p)[k]]_vars

\* The lost update: both processes run, A has set resource_group, B has
\* then set subscription, and the file holds B's state without the
\* resource_group that is in A's memory.
Wit_C23 ==
    /\ s_pc = "ready"
    /\ s_pc_b = "ready"
    /\ s_who = "B"
    /\ s_last.method = "set_subscription"
    /\ s_last.prev = "set_resource_group"
    /\ "resource_group" \in DOMAIN mem
    /\ "subscription" \notin DOMAIN mem
    /\ Stamped(file)
    /\ file.state = mem_b
    /\ "subscription" \in DOMAIN file.state
    /\ "resource_group" \notin DOMAIN file.state

\* ------------------------------------------------------------------------
\* The lifecycle commands with the session store
\* ------------------------------------------------------------------------
\* `not x` for an option or a stored name: None and the empty string.
Falsy(x) == x \in {"None", ""}

\* get_resource_group / get_subscription: the name stored, or None.
get_resource_group(state) ==
    IF "resource_group" \in DOMAIN state THEN state["resource_group"].name ELSE "None"

get_subscription(state) ==
    IF "subscription" \in DOMAIN state THEN state["subscription"].id ELSE "None"

\* The options as typed: absent, empty, or a name.
GivenOptions ==
    [resource_group : {"None", "", "rg2"}, subscription_id : {"None", "", "sub2"}]

SessionFiles ==
    { NoFile,
      _save_state(EarlierEntries, 0),
      _save_state("resource_group" :> rg_info("rg1", 0), 0),
      _save_state("subscription" :> sub_info("sub1", 0), 0) }

SessionRemotes ==
    { NoDeployment, Deployment("ProvisionedManaged", 2, "OpenAI", KeyA, "v1") }

\* The other arguments of the four commands.
SessionArgs ==
    {a \in CreateArgs : a.model_name = KeyA /\ a.deployment_type = Str_regional
                        /\ a.subscription_id = "sub1"}
    \cup {a \in UpdateArgs : a.deployment_type = Str_regional /\ a.subscription_id = "sub1"}
    \cup {a \in DeleteArgs \cup GetInfoArgs : a.subscription_id = "sub1"}

SessionInit ==
    /\ file \in SessionFiles
    /\ now = 0
    /\ mem = EmptyState
    /\ s_pc = "none"
    /\ s_last = NoMethod
    /\ RaceIdle
    /\ CommandIdle
    /\ ValidatorIdle
    /\ credential = "None"
    /\ client = "None"
    /\ remote \in SessionRemotes
    /\ pc = "idle"
    /\ op = NoOp
    /\ current_deployment = NoDeployment
    /\ pending = NoDeployment
    /\ reqs = <<>>
    /\ msgs = <<>>
    /\ outcome = NoOutcome
    /\ failures = <<>>
    /\ cmd = NoCmd
    /\ exit_code = "none"

\* The command ends in sys.exit(1) before it calls the manager.
CommandRefuses(name, force, msg) ==
    /\ cmd' = [name |-> name, stage |-> "exited", force |-> force]
    /\ exit_code' = "1"
    /\ msgs' = <<msg>>
    /\ reqs' = <<>>
    /\ outcome' = NoOutcome
    /\ UNCHANGED <<pc, op, current_deployment, pending>>

\* The command calls the manager: the operation of its name, or for
\* delete the fetch of the deployment's information first.
CommandCalls(args, force, subscription_id) ==
    /\ cmd' = [name |-> args.name,
               stage |-> IF args.name = "delete" THEN "prefetch" ELSE "op",
               force |-> force]
    /\ exit_code' = "none"
    /\ Enter([args EXCEPT !.subscription_id = subscription_id,
                          !.name = IF args.name = "delete" THEN "get_info" ELSE @])

\* A lifecycle command starts: AIFoundryCLI() loads the session, options
\* that are missing are looked up in it, and a name that is still missing
\* ends the command.
LifecycleCommand_storedFirst(args, force, g) ==
    /\ CmdCanStart
    /\ s_pc = "none"
    /\ LET loaded == _load_state(file, now)
           stored_rg == get_resource_group(loaded.state)
           stored_sub == get_subscription(loaded.state)
           resource_group == IF Falsy(stored_rg) THEN g.resource_group ELSE stored_rg
           subscription_id == IF Falsy(stored_sub) THEN g.subscription_id ELSE stored_sub
       IN  /\ mem' = loaded.state
           /\ file' = loaded.file
           /\ s_last' = Called("__init__", "", loaded.branch,
                                IF file.has_timestamp THEN now - file.timestamp ELSE 0)
           /\ IF Falsy(resource_group)
              THEN /\ resolved' = [resource_group |-> "None",
                                   subscription_id |-> g.subscription_id]
                   /\ CommandRefuses(args.name, force, "ResourceGroupRequired")
              ELSE IF Falsy(subscription_id)
              THEN /\ resolved' = [resource_group |-> resource_group,
                                   subscription_id |-> "None"]
                   /\ CommandRefuses(args.name, force, "SubscriptionRequired")
              ELSE /\ resolved' = [resource_group |-> resource_group,
                                   subscription_id |-> subscription_id]
                   /\ CommandCalls(args, force, subscription_id)
    /\ s_pc' = "ready"
    /\ given' = g
    /\ credential' = "None"
    /\ client' = "None"
    /\ failures' = <<>>
    /\ UNCHANGED <<remote, now, validator_vars, race_vars>>

LifecycleCommand(args, force, g) ==
    /\ CmdCanStart
    /\ s_pc = "none"
    /\ LET loaded == _load_state(file, now)
           resource_group == IF Falsy(g.resource_group)
                             THEN get_resource_group(loaded.state)
                             ELSE g.resource_group
           subscription_id == IF Falsy(g.subscription_id)
                              THEN get_subscription(loaded.state)
                              ELSE g.subscription_id
       IN  /\ mem' = loaded.state
           /\ file' = loaded.file
           /\ s_last' = Called("__init__", "", loaded.branch,
                                IF file.has_timestamp THEN now - file.timestamp ELSE 0)
           /\ IF Falsy(resource_group)
              THEN /\ resolved' = [resource_group |-> "None",
                                   subscription_id |-> g.subscription_id]
                   /\ CommandRefuses(args.name, force, "ResourceGroupRequired")
              ELSE IF Falsy(subscription_id)
              THEN /\ resolved' = [resource_group |-> resource_group,
                                   subscription_id |-> "None"]
                   /\ CommandRefuses(args.name, force, "SubscriptionRequired")
              ELSE /\ resolved' = [resource_group |-> resource_group,
                                   subscription_id |-> subscription_id]
                   /\ CommandCalls(args, force, subscription_id)
    /\ s_pc' = "ready"
    /\ given' = g
    /\ credential' = "None"
    /\ client' = "None"
    /\ failures' = <<>>
    /\ UNCHANGED <<remote, now, validator_vars, race_vars>>

\* The process of the command is gone: the manager, the StateManager and
\* the options with it; the file and the remote platform stay.
CommandProcessEnd ==
    /\ cmd.stage = "exited"
    /\ cmd' = NoCmd
    /\ exit_code' = "none"
    /\ credential' = "None"
    /\ client' = "None"
    /\ pc' = "idle"
    /\ op' = NoOp
    /\ current_deployment' = NoDeployment
    /\ pending' = NoDeployment
    /\ reqs' = <<>>
    /\ msgs' = <<>>
    /\ outcome' = NoOutcome
    /\ failures' = <<>>
    /\ mem' = EmptyState
    /\ s_pc' = "none"
    /\ given' = NoOptions
    /\ resolved' = NoOptions
    /\ UNCHANGED <<remote, file, now, s_last, validator_vars, race_vars>>

\* Time passes between two commands.
CommandTick(d) ==
    /\ cmd = NoCmd
    /\ Tick(d)

SessionNext ==
    \/ \E args \in SessionArgs, force \in BOOLEAN, g \in GivenOptions :
          /\ force => args.name = "delete"
          /\ LifecycleCommand(args, force, g)
    \/ ClientCached
    \/ ClientFromStoredCredential
    \/ CredentialTested
    \/ CredentialFailed
    \/ CreateValidate
    \/ CreateSubmit
    \/ \E e \in RemoteFailures(credential) : CreateSubmitFails(e)
    \/ CreatePollSucceeds
    \/ \E e \in RemoteFailures(credential) : CreatePollFails(e)
    \/ UpdateGet
    \/ \E e \in RemoteFailures(credential) : UpdateGetFails(e)
    \/ UpdateValidate
    \/ UpdateSubmit
    \/ \E e \in RemoteFailures(credential) : UpdateSubmitFails(e)
    \/ UpdatePollSucceeds
    \/ \E e \in RemoteFailures(credential) : UpdatePollFails(e)
    \/ \E answer \in BOOLEAN : DeleteConfirm(answer)
    \/ DeleteSubmit
    \/ \E e \in RemoteFailures(credential) : DeleteSubmitFails(e)
    \/ DeletePollSucceeds
    \/ \E e \in RemoteFailures(credential) : DeletePollFails(e)
    \/ GetInfo
    \/ \E e \in RemoteFailures(credential) : GetInfoFails(e)
    \/ \E answer \in BOOLEAN : CmdDeleteProceed(answer)
    \/ CmdExit
    \/ CommandProcessEnd
    \/ \E d \in {expiration_seconds - 1, expiration_seconds, expiration_seconds + 1} :
          CommandTick(d)

SpecSession == SessionInit /\ [][SessionNext]_vars

\* ------------------------------------------------------------------------
\* Claims about the commands and the session
\* ------------------------------------------------------------------------
\* The step starts a lifecycle command.
CommandStep == cmd = NoCmd /\ cmd' # NoCmd

\* The command of the step ended before it called the manager.
Refused ==
    /\ cmd'.stage = "exited"
    /\ exit_code' = "1"
    /\ reqs' = <<>>
    /\ pc' = "idle"
    /\ op' = NoOp
    /\ v_out' = NoResult

\* C24 as stated: an option given on the command line is used as it is; a
\* missing one is taken from the session; a name missing from both ends
\* the command with an error before any validation or remote call.
Orig_C24 ==
    [][CommandStep =>
         /\ given'.resource_group # "None" =>
               resolved'.resource_group = given'.resource_group
         /\ given'.subscription_id # "None" =>
               resolved'.subscription_id = given'.subscription_id
         /\ (given'.resource_group = "None" /\ "resource_group" \in DOMAIN mem') =>
               resolved'.resource_group = mem'["resource_group"].name
         /\ (given'.resource_group = "None" /\ "resource_group" \notin DOMAIN mem') =>
               Refused
         /\ (given'.subscription_id = "None" /\ "subscription" \notin DOMAIN mem') =>
               Refused]_vars

\* C24: a non-empty option given on the command line is used as it is; a
\* missing or empty one is taken from the session as loaded; when the
\* resource group, or else the subscription, is neither given nor stored,
\* the command exits with status 1 before any validation or remote call;
\* otherwise the manager is called with the subscription looked up.
Thm_C24 ==
    [][CommandStep =>
         LET rg == IF Falsy(given'.resource_group)
                   THEN get_resource_group(mem') ELSE given'.resource_group
             sub == IF Falsy(given'.subscription_id)
                    THEN get_subscription(mem') ELSE given'.subscription_id
         IN  /\ ~Falsy(given'.resource_group) =>
                   resolved'.resource_group = given'.resource_group
             /\ (Falsy(given'.resource_group) /\ "resource_group" \in DOMAIN mem') =>
                   resolved'.resource_group = mem'["resource_group"].name
             /\ (~Falsy(rg) /\ ~Falsy(given'.subscription_id)) =>
                   resolved'.subscription_id = given'.subscription_id
             /\ (~Falsy(rg) /\ Falsy(given'.subscription_id)
                   /\ "subscription" \in DOMAIN mem') =>
                   resolved'.subscription_id = mem'["subscription"].id
             /\ (Falsy(rg) \/ Falsy(sub)) => Refused
             /\ (~Falsy(rg) /\ ~Falsy(sub)) =>
                   /\ exit_code' = "none"
                   /\ pc' # "idle"
                   /\ op'.subscription_id = resolved'.subscription_id
                   /\ resolved' = [resource_group |-> rg, subscription_id |-> sub]]_vars

\* A command with --subscription-id and without --resource-group has sent
\* a request for the subscription typed, in the resource group stored.
Wit_C24 ==
    /\ given = [resource_group |-> "None", subscription_id |-> "sub2"]
    /\ resolved = [resource_group |-> "rg1", subscription_id |-> "sub2"]
    /\ get_resource_group(mem) = "rg1"
    /\ get_subscription(mem) = "sub1"
    /\ op.subscription_id = "sub2"
    /\ Len(reqs) > 0
    /\ reqs[Len(reqs)].sub = "sub2"

\* C26: no step of create, update, delete or get-info changes the state
\* of the StateManager or the session file, whether the operation ends in
\* a result or in an exception; in particular no deployment record is
\* stored.
Thm_C26 ==
    [][pc \notin {"idle", "done"} =>
         /\ mem' = mem
         /\ file' = file
         /\ "deployment" \notin DOMAIN mem'
         /\ "deployment" \notin DOMAIN FileEntries(file')]_vars

\* A create has succeeded and the session holds the entries it held.
Wit_C26 ==
    /\ cmd.name = "create"
    /\ pc = "done"
    /\ outcome.kind = "return"
    /\ remote.exists
    /\ mem = EarlierEntries
    /\ Stamped(file)
    /\ file.state = EarlierEntries

\* ------------------------------------------------------------------------
\* The confirmation gates of delete-ptu-deployment
\* ------------------------------------------------------------------------
DeleteRequests(r) == {i \in DOMAIN r : r[i].kind = "delete"}

\* C25: when delete-ptu-deployment is invoked with --force, the deletion
\* request is submitted without any interactive confirmation prompt: a
\* forced delete command never waits on a confirmation.
Orig_C25 ==
    (cmd.name = "delete" /\ cmd.force /\ cmd.stage = "op") => pc # "d_confirm"

\* A confirmation prompt of the delete command is declined in this step:
\* the one of the command, or the one inside delete_ptu_deployment.
CommandDeclined == cmd.name = "delete" /\ cmd.stage = "prefetch" /\ cmd'.stage = "exited"
ManagerDeclined == pc = "d_confirm" /\ pc' = "done"

\* C27: when the operator declines a confirmation prompt of the delete
\* command, no delete request is submitted, the deployment is left as it
\* was, the operation returns without an exception and the command ends
\* with status 0.
Thm_C27 ==
    [][ /\ CommandDeclined
          => /\ exit_code' = "0"
             /\ reqs' = reqs
             /\ remote' = remote
        /\ ManagerDeclined
          => /\ outcome' = Returned(NoneValue)
             /\ reqs' = reqs
             /\ DeleteRequests(reqs') = {}
             /\ remote' = remote
             /\ failures' = failures
        /\ (cmd.name = "delete" /\ cmd.stage = "op" /\ cmd'.stage = "exited"
              /\ DeleteRequests(reqs) = {})
          => (outcome.kind = "return" <=> exit_code' = "0") ]_vars

Wit_C27 ==
    /\ cmd.name = "delete"
    /\ cmd.stage = "exited"
    /\ exit_code = "0"
    /\ op.name = "delete"
    /\ pc = "done"
    /\ outcome = Returned(NoneValue)
    /\ remote.exists
    /\ DeleteRequests(reqs) = {}

\* ------------------------------------------------------------------------
\* The course of create, update and delete
\* ------------------------------------------------------------------------
Submitting == {"c_submit", "u_submit", "d_submit"}
Polling == {"c_poll", "u_poll", "d_poll"}
Mutations == {"create", "update", "delete"}

\* The operation returns normally in this step.
ReturnsNormally == op.name \in Mutations /\ pc # "done" /\ pc' = "done" /\ outcome'.kind = "return"

\* The long-running operation ends in failure in this step.
PollFails == pc \in Polling /\ pc' = "done" /\ outcome'.kind = "raise"

\* The states an operation can be in right before pc.
Before(p) ==
    CASE p = "c_client"   -> {"c_validate"}
      [] p = "c_submit"   -> {"c_client"}
      [] p = "c_poll"     -> {"c_submit"}
      [] p = "u_get"      -> {"u_client"}
      [] p = "u_validate" -> {"u_get"}
      [] p = "u_submit"   -> {"u_validate"}
      [] p = "u_poll"     -> {"u_submit"}
      [] p = "d_confirm"  -> {"d_client"}
      [] p = "d_submit"   -> {"d_confirm"}
      [] p = "d_poll"     -> {"d_submit"}
      [] p = "g_get"      -> {"g_client"}
      [] OTHER            -> {"idle", "done"}

PollWaits == {expiration_seconds}

\* Time passes inside operation.result(): the call is made without a
\* timeout and nothing else runs in the process while it blocks.
PollWait(d) ==
    /\ pc \in Polling
    /\ now + d <= MaxTime
    /\ now' = now + d
    /\ UNCHANGED <<validator_vars, race_vars, command_vars, manager_vars,
                   file, mem, s_pc, s_last>>

\* The remote long-running operation reaches a terminal state and
\* operation.result() answers.
PollEnds ==
    \/ CreatePollSucceeds
    \/ \E e \in RemoteFailures(credential) : CreatePollFails(e)
    \/ UpdatePollSucceeds
    \/ \E e \in RemoteFailures(credential) : UpdatePollFails(e)
    \/ DeletePollSucceeds
    \/ \E e \in RemoteFailures(credential) : DeletePollFails(e)

\* The calls of the three operations: one model, two tiers, every
\* capacity and both subscriptions.
PollingArgs ==
    { a \in CreateArgs \cup UpdateArgs \cup DeleteArgs :
        /\ a.name = "create" => a.model_name = KeyA
        /\ a.name # "delete" => a.deployment_type \in {Str_regional, Str_Global} }

PollingNext ==
    \/ \E args \in PollingArgs : Call(args)
    \/ CallOver
    \/ ClientCached
    \/ ClientFromStoredCredential
    \/ CredentialTested
    \/ CredentialFailed
    \/ CreateValidate
    \/ CreateSubmit
    \/ \E e \in RemoteFailures(credential) : CreateSubmitFails(e)
    \/ CreatePollSucceeds
    \/ \E e \in RemoteFailures(credential) : CreatePollFails(e)
    \/ UpdateGet
    \/ \E e \in RemoteFailures(credential) : UpdateGetFails(e)
    \/ UpdateValidate
    \/ UpdateSubmit
    \/ \E e \in RemoteFailures(credential) : UpdateSubmitFails(e)
    \/ UpdatePollSucceeds
    \/ \E e \in RemoteFailures(credential) : UpdatePollFails(e)
    \/ \E answer \in BOOLEAN : DeleteConfirm(answer)
    \/ DeleteSubmit
    \/ \E e \in RemoteFailures(credential) : DeleteSubmitFails(e)
    \/ DeletePollSucceeds
    \/ \E e \in RemoteFailures(credential) : DeletePollFails(e)
    \/ \E d \in PollWaits : PollWait(d)

\* A manager that has done nothing yet, and either no deployment or one
\* of the regional tier at the service.
PollingInit ==
    /\ ValidatorIdle
    /\ StoreIdle
    /\ RaceIdle
    /\ CommandIdle
    /\ credential = "None"
    /\ client = "None"
    /\ remote \in SessionRemotes
    /\ pc = "idle"
    /\ op = NoOp
    /\ current_deployment = NoDeployment
    /\ pending = NoDeployment
    /\ reqs = <<>>
    /\ msgs = <<>>
    /\ outcome = NoOutcome
    /\ failures = <<>>
    /\ cmd = NoCmd
    /\ exit_code = "none"

\* The manager's operations with the assumption that a submitted
\* long-running operation reaches a terminal state.
SpecPolling == PollingInit /\ [][PollingNext]_vars /\ WF_vars(PollEnds)

\* The long-running operation has succeeded in this step.
PollSucceeded ==
    /\ outcome'.kind = "return"
    /\ remote' = (IF op.name = "delete" THEN NoDeployment ELSE pending)

\* The long-running operation has failed in this step with an error of
\* the service or the transport.
PollFailed ==
    /\ Len(failures') = Len(failures) + 1
    /\ outcome' = Raised(failures'[Len(failures')].exc)
    /\ failures'[Len(failures')].exc \in RemoteFailures(credential)
    /\ remote' = remote

\* C29: once a request has been submitted the operation ends, provided
\* the remote long-running operation reaches a terminal state; the polling
\* state is left only to the end of the operation, with the success or the
\* failure of the long-running operation, and elapsed time alone changes
\* nothing.
Thm_C29 ==
    /\ (pc \in Polling) ~> (pc = "done" /\ outcome.kind \in {"return", "raise"})
    /\ [][ /\ (pc \in Polling /\ pc' # pc)
             => (pc' = "done" /\ (PollSucceeded \/ PollFailed))
           /\ (pc \in Polling /\ pc' = pc)
             => UNCHANGED <<manager_vars, file, mem>> ]_vars

Wit_C29 ==
    /\ pc = "done"
    /\ op.name = "delete"
    /\ now >= expiration_seconds
    /\ outcome.kind = "raise"
    /\ Len(reqs) = 1
    /\ reqs[1].kind = "delete"
    /\ remote.exists

\* ------------------------------------------------------------------------
\* The tier used by the validation and the SKU that is submitted
\* ------------------------------------------------------------------------
GlobalSkus == {"GlobalProvisionedManaged", "DataZoneProvisionedManaged"}

\* The model name whose table row the validation of the operation reads.
ValidatedName ==
    IF op.name = "create" THEN op.model_name ELSE current_deployment.model_name

\* C30: the tier bucket used to validate a capacity and the SKU submitted
\* for it agree: a create or update request carries a Global or Data Zone
\* SKU exactly when its capacity was validated against the global pair,
\* and ProvisionedManaged when it was validated against the regional pair.
Orig_C30 ==
    \A i \in DOMAIN reqs :
      (reqs[i].kind = "create_or_update" /\ model_key(ValidatedName) # <<>>)
        => /\ is_global_type(op.deployment_type) <=> reqs[i].body.sku_name \in GlobalSkus
           /\ ~is_global_type(op.deployment_type) <=> reqs[i].body.sku_name = "ProvisionedManaged"

\* ------------------------------------------------------------------------
\* validate_ptu_capacity over every requirement entry of the data model
\* ------------------------------------------------------------------------
MaxIncrement == 2

\* Python's a % b for a divisor that is not zero: the sign of the result
\* is the sign of the divisor.
PyMod(a, b) == IF b > 0 THEN a % b ELSE 0 - ((0 - a) % (0 - b))

\* An entry of the table: regional_min is an integer or null
\* (regional_none), the three other fields are integers.
RequirementEntries ==
    [regional_none : BOOLEAN, regional_min : 0..1,
     regional_increment : (0 - 1)..MaxIncrement,
     global_min : 0..1, global_increment : (0 - 1)..MaxIncrement]

\* validate_ptu_capacity from the point where the entry of the model has
\* been read from the table.
validate_requirements(requirements, model_name, capacity, deployment_type) ==
    LET glob == is_global_type(deployment_type)
        min_none == IF glob THEN FALSE ELSE requirements.regional_none
        min_capacity == IF glob THEN requirements.global_min
                        ELSE requirements.regional_min
        increment == IF glob THEN requirements.global_increment
                     ELSE requirements.regional_increment
        type_name == IF glob THEN "Global/Data Zone" ELSE "Regional"
    IN  IF min_none
          THEN Invalid("UnsupportedTier", model_name, "", 0, 0)
        ELSE IF capacity < min_capacity
          THEN Invalid("MinCapacity", model_name, type_name, min_capacity, capacity)
        ELSE IF increment = 0
          THEN Raises("ZeroDivisionError")
        ELSE IF PyMod(capacity - min_capacity, increment) # 0
          THEN Invalid("IncrementMismatch", model_name, type_name, increment, capacity)
        ELSE ValidResult

RequirementsInit ==
    /\ v_in \in [requirements : RequirementEntries, model_name : {KeyA},
                 capacity : ValidatorCapacities,
                 deployment_type : {Str_regional, Str_Global, Str_datazone, <<>>}]
    /\ v_out = NoResult
    /\ StoreIdle
    /\ RaceIdle
    /\ CommandIdle
    /\ ManagerIdle

\* validate_ptu_capacity is called for a model whose entry is the given one.
ValidateRequirements ==
    /\ v_out = NoResult
    /\ v_out' = validate_requirements(v_in.requirements, v_in.model_name,
                                      v_in.capacity, v_in.deployment_type)
    /\ UNCHANGED <<v_in, store_vars, race_vars, command_vars, manager_vars>>

RequirementsNext == ValidateRequirements

SpecRequirements == RequirementsInit /\ [][RequirementsNext]_vars

\* C31: for every requirement entry, every capacity and every tier string
\* the call returns a (bool, message) pair and never raises, an increment
\* of 0 included.
Orig_C31 ==
    v_out # NoResult => (v_out.tag = "return" /\ v_out.ok \in BOOLEAN)

\* ------------------------------------------------------------------------
\* The credential and the client of one manager
\* ------------------------------------------------------------------------
\* The states of an operation that has obtained its management client.
PastClient ==
    {"c_submit", "c_poll", "u_get", "u_validate", "u_submit", "u_poll",
     "d_confirm", "d_submit", "d_poll", "g_get"}

\* C32: once the token test of the credential has failed in a manager, no
\* management client is created with it, no operation gets past the client
\* and no request other than a token test is sent.
Orig_C32 ==
    credential = "Untested"
      => /\ client = "None"
         /\ pc \notin PastClient
         /\ \A i \in DOMAIN reqs : reqs[i].kind = "get_token"

\* C33: every request an operation sends to the service goes to the
\* subscription that was passed to that operation.
Orig_C33 ==
    \A i \in DOMAIN reqs :
      reqs[i].kind # "get_token" => reqs[i].sub = op.subscription_id

\* ------------------------------------------------------------------------
\* Two processes, with the load of the session file in its separate steps
\* ------------------------------------------------------------------------
LoadRaceInit ==
    /\ file \in {NoFile, UntimedFile, _save_state(EarlierEntries, 0)}
    /\ now = 0
    /\ mem = EmptyState
    /\ s_pc = "none"
    /\ s_last = NoMethod
    /\ RaceIdle
    /\ CommandIdle
    /\ ValidatorIdle
    /\ ManagerIdle

\* Process p starts and _load_state reads the file: it opens and parses
\* it, and judges it by its timestamp.  A fresh file gives the process its
\* state, to be written back; an expired or untimed one is to be removed.
ProcOpen(p) ==
    /\ PcOf(p) = "none"
    /\ LET loaded == _load_state(file, now)
       IN  /\ ProcBecomes(p, IF loaded.branch = "fresh" THEN loaded.state ELSE EmptyState,
                          CASE loaded.branch = "fresh" -> "refresh"
                            [] loaded.branch \in {"expired", "no_timestamp"} -> "clear"
                            [] OTHER -> "ready")
           /\ s_last' = Called("__init__", "", loaded.branch,
                                IF file.has_timestamp THEN now - file.timestamp ELSE 0)
    /\ s_who' = p
    /\ UNCHANGED <<file, now>>
    /\ RaceUnchanged

\* The load of process p goes on with _save_state: the state it read is
\* written over the file, whatever the file holds by now.
ProcRefresh(p) ==
    /\ PcOf(p) = "refresh"
    /\ ProcBecomes(p, StateOf(p), "ready")
    /\ file' = _save_state(StateOf(p), now)
    /\ s_last' = Called("_save_state", "", "fresh", 0)
    /\ s_who' = p
    /\ UNCHANGED now
    /\ RaceUnchanged

\* The load of process p goes on with _clear_state: the file that exists
\* by now is removed.
ProcClearFile(p) ==
    /\ PcOf(p) = "clear"
    /\ ProcBecomes(p, _clear_state(file).state, "ready")
    /\ file' = _clear_state(file).file
    /\ s_last' = Called("_clear_state", "", IF file.kind = "absent" THEN "absent" ELSE "removed", 0)
    /\ s_who' = p
    /\ UNCHANGED now
    /\ RaceUnchanged

LoadRaceNext ==
    \/ \E p \in Procs : ProcOpen(p)
    \/ \E p \in Procs : ProcRefresh(p)
    \/ \E p \in Procs : ProcClearFile(p)
    \/ \E p \in Procs, r \in ResourceGroups :
          ProcSet(p, "set_resource_group", "resource_group", rg_info(r, now))
    \/ \E p \in Procs : ProcExit(p)
    \/ \E d \in {expiration_seconds - 1, expiration_seconds} : RaceTick(d)

SpecStoreLoadRace == LoadRaceInit /\ [][LoadRaceNext]_vars

\* The file carries a timestamp that has not expired at time t.
FreshAt(f, t) == Stamped(f) /\ t - f.timestamp < expiration_seconds

\* C34: the file a load removes is never one that carries a current
\* timestamp, written by the other process since the load read the file.
Orig_C34 ==
    [][\A p \in Procs :
          (PcOf(p) = "clear" /\ PcOf(p)' = "ready" /\ file' = NoFile)
            => ~FreshAt(file, now)]_vars

====
